---- MODULE Spec2Model ----
(***************************************************************************)
(* A model of the diff/dependency analysis and scoring engine of the       *)
(* pr-review-agent repository:                                             *)
(*   DiffParser.parse_diff            (app/analysis/diff_parser.py)        *)
(*   DependencyGraph                  (app/analysis/dependency_graph.py)   *)
(*   RiskDetector                     (app/analysis/risk_detector.py)      *)
(*   ConfidenceEvaluator              (app/agents/confidence.py)           *)
(*   calculate_risk_score             (app/review/scorer.py)               *)
(* The five components share no state, so each has its own specification   *)
(* (SpecDiff, SpecGraph, SpecRisk, SpecConf, SpecScore) over the module's  *)
(* variables; the variables of the other components stay at their initial  *)
(* value.                                                                  *)
(***************************************************************************)
EXTENDS Integers, Sequences, FiniteSets, TLC

VARIABLES
    \* ---- DiffParser.parse_diff: the locals of one call ----
    dpc,            \* "idle" | "loop" | "done" | "raised"
    lines,          \* the input lines consumed so far (lines[0..i-1])
    fileHeap,       \* the FileDiff objects created, by identity
    hunkHeap,       \* the HunkChange objects created, by identity
    file_diffs,     \* the result list: references into fileHeap
    current_file,   \* reference into fileHeap, or NoRef
    current_hunk,   \* reference into hunkHeap, or NoRef
    \* ---- one DependencyGraph instance ----
    dependencies,   \* self.dependencies: filepath -> FileDependency
    import_graph,   \* self.import_graph: file -> set of imported modules
    reverse_graph,  \* self.reverse_graph: module -> set of importing files
    gq,             \* the last query call: its name, arguments and result
    \* ---- one RiskDetector instance ----
    findings,       \* self.findings: the RiskFinding list
    risk_ret,       \* the last call on the detector: its name and result
    \* ---- calculate_risk_score (stateless) ----
    score_ret,      \* the last call: its risk_signals argument and its RiskScore
    \* ---- ConfidenceEvaluator (stateless but for its threshold) ----
    conf_ret,       \* the last call of evaluate: its arguments and its outcome
    \* ---- DiffParser.categorize_files (stateless) ----
    cat_ret,        \* the last call: its file_diffs argument and its result
    \* ---- one DependencyGraph traversal, statement by statement ----
    walk            \* the locals and the call stack of the running query

diffVars == <<dpc, lines, fileHeap, hunkHeap, file_diffs, current_file, current_hunk>>
graphVars == <<dependencies, import_graph, reverse_graph, gq>>
riskVars == <<findings, risk_ret>>
scoreVars == <<score_ret>>
confVars == <<conf_ret>>
catVars == <<cat_ret>>
walkVars == <<walk>>

vars == <<diffVars, graphVars, riskVars, scoreVars, confVars, catVars, walkVars>>

(***************************************************************************)
(* Numbers.  The scores of the program are Python floats; the model keeps  *)
(* them exact, as fractions <<numerator, denominator>> in lowest terms     *)
(* with a positive denominator.                                            *)
(***************************************************************************)

Abs(x) == IF x < 0 THEN -x ELSE x

RECURSIVE GCD(_, _)
GCD(a, b) == IF b = 0 THEN a ELSE GCD(b, a % b)

\* The fraction n / d (d # 0) in lowest terms.
Frac(n, d) ==
    LET g == GCD(Abs(n), Abs(d))
        sgn == IF d < 0 THEN -1 ELSE 1
    IN <<sgn * (n \div g), sgn * (d \div g)>>

FracOf(n) == <<n, 1>>
FracAdd(x, y) == Frac(x[1] * y[2] + y[1] * x[2], x[2] * y[2])
FracMul(x, y) == Frac(x[1] * y[1], x[2] * y[2])
FracDiv(x, y) == Frac(x[1] * y[2], x[2] * y[1])
FracLe(x, y) == x[1] * y[2] <= y[1] * x[2]
FracLt(x, y) == x[1] * y[2] < y[1] * x[2]
FracMin(x, y) == IF FracLe(x, y) THEN x ELSE y
FracMax(x, y) == IF FracLe(x, y) THEN y ELSE x

\* round(x, 2) of a fraction x >= 0, in hundredths: the nearest hundredth,
\* a tie going to the even one.
Round2(x) ==
    LET n == 100 * x[1]
        q == n \div x[2]
        r == n % x[2]
    IN IF 2 * r < x[2] THEN q
       ELSE IF 2 * r > x[2] THEN q + 1
       ELSE IF q % 2 = 0 THEN q ELSE q + 1

(***************************************************************************)
(* DiffParser                                                              *)
(***************************************************************************)

\* Python's None for an object reference (references count from 1).
NoRef == 0
\* Python's None for LineChange.old_line_number / new_line_number.
NoLine == -1

\* Bound: the number of lines of the input text.
MaxLines == 4

\* The input lines.  Each token stands for one concrete line of text:
\*   "FH"  diff --git a/x.py b/x.py       matches FILE_HEADER_PATTERN
\*   "BFH" diff --git x.py                starts with 'diff --git', no match
\*   "NEW" new file mode 100644
\*   "DEL" deleted file mode 100644
\*   "REN" rename from old.py
\*   "HH"  @@ -1,2 +3,2 @@ def f          matches HUNK_HEADER_PATTERN
\*   "HH1" @@ -5 +7 @@                    matches, both counts omitted
\*   "BHH" @@ garbage                     starts with '@@', no match
\*   "ADD" +x     "REM" -x     "CTX" (space)x
\*   "OTH" index 1a2b..3c4d 100644        (or a +++ / --- line, or "")
LineTokens == {"FH", "BFH", "NEW", "DEL", "REN", "HH", "HH1", "BHH",
               "ADD", "REM", "CTX", "OTH"}

StartsWithDiffGit(line) == line \in {"FH", "BFH"}
FILE_HEADER_PATTERN(line) == line = "FH"
NEW_FILE_MODE_PATTERN(line) == line = "NEW"
DELETED_FILE_MODE_PATTERN(line) == line = "DEL"
RENAME_FROM_PATTERN(line) == line = "REN"
StartsWithAtAt(line) == line \in {"HH", "HH1", "BHH"}
HUNK_HEADER_PATTERN(line) == line \in {"HH", "HH1"}
IsAddedLine(line) == line = "ADD"
IsRemovedLine(line) == line = "REM"
IsContextLine(line) == line = "CTX"

\* FileDiff(filename=match.group(2), old_filename=match.group(1), ...)
NewFileDiff ==
    [filename |-> "x.py", old_filename |-> "x.py", is_new_file |-> FALSE,
     is_deleted_file |-> FALSE, is_renamed |-> FALSE, hunks |-> <<>>,
     additions |-> 0, deletions |-> 0, language |-> "None"]

\* HunkChange(...) from the groups of the hunk header; an omitted count is 1.
NewHunkChange(line) ==
    IF line = "HH"
    THEN [old_start |-> 1, old_count |-> 2, new_start |-> 3, new_count |-> 2,
          lines |-> <<>>, header |-> "def f"]
    ELSE [old_start |-> 5, old_count |-> 1, new_start |-> 7, new_count |-> 1,
          lines |-> <<>>, header |-> ""]

\* CountTypes that counts every line recorded so far.
CountTypes_All(ls, types) == Len(ls)

\* sum(1 for l in hunk.lines if l.change_type in types)
CountTypes(ls, types) ==
    Cardinality({k \in 1..Len(ls) : ls[k].change_type \in types})

\* The LineChange appended for a '+', '-' or ' ' line.
NewLineChange(hunk, line) ==
    [line_number |-> Len(hunk.lines),
     change_type |-> IF IsAddedLine(line) THEN "added"
                     ELSE IF IsRemovedLine(line) THEN "removed" ELSE "context",
     old_line_number |->
        IF IsRemovedLine(line)
        THEN hunk.old_start + CountTypes(hunk.lines, {"removed", "context"})
        ELSE NoLine,
     new_line_number |->
        IF IsAddedLine(line)
        THEN hunk.new_start + CountTypes(hunk.lines, {"added", "context"})
        ELSE NoLine]

\* _detect_language: the extension of the filename, lower-cased, looked up
\* in LANGUAGE_MAP; None without a '.' or with an unknown extension.
DetectLanguage(filename) ==
    CASE filename \in {"x.py", "src/app.py", "tests/test_app.py",
                       "db/migrations/0005_x.py"} -> "python"
      [] filename \in {"package.json", "tests/fixtures/data.json"} -> "json"
      [] filename = "config/settings.yaml" -> "yaml"
      [] filename = "README.md" -> "markdown"
      [] filename = "requirements.txt" -> "text"
      [] filename = "db/migrate.sql" -> "sql"
      [] OTHER -> "None"

\* current_file.hunks.append(current_hunk)
AppendHunk(heap, f, h) ==
    [heap EXCEPT ![f].hunks = Append(@, h)]

\* parse_diff is entered with a text that is not empty and not blank.
ParseStart ==
    /\ dpc = "idle"
    /\ dpc' = "loop"
    /\ UNCHANGED <<lines, fileHeap, hunkHeap, file_diffs, current_file, current_hunk>>
    /\ UNCHANGED <<graphVars, riskVars, scoreVars, confVars, catVars, walkVars>>

\* parse_diff on an empty or blank text: logs a warning and returns [].
ParseEmpty ==
    /\ dpc = "idle"
    /\ dpc' = "done"
    /\ UNCHANGED <<lines, fileHeap, hunkHeap, file_diffs, current_file, current_hunk>>
    /\ UNCHANGED <<graphVars, riskVars, scoreVars, confVars, catVars, walkVars>>

\* One iteration of the while loop on a line starting with 'diff --git'.
LineFileHeader(line) ==
    /\ StartsWithDiffGit(line)
    /\ LET flushed == IF current_file # NoRef /\ current_hunk # NoRef
                      THEN AppendHunk(fileHeap, current_file, current_hunk)
                      ELSE fileHeap
           fds == IF current_file # NoRef
                  THEN Append(file_diffs, current_file) ELSE file_diffs
       IN /\ file_diffs' = fds
          /\ IF FILE_HEADER_PATTERN(line)
             THEN /\ fileHeap' = Append(flushed, NewFileDiff)
                  /\ current_file' = Len(flushed) + 1
                  /\ current_hunk' = NoRef
             ELSE /\ fileHeap' = flushed
                  /\ UNCHANGED <<current_file, current_hunk>>
    /\ UNCHANGED <<hunkHeap, dpc>>

\* The file-mode and rename branches (each needs a current file).
LineFileMode(line) ==
    /\ ~StartsWithDiffGit(line)
    /\ current_file # NoRef
    /\ \/ /\ NEW_FILE_MODE_PATTERN(line)
          /\ fileHeap' = [fileHeap EXCEPT ![current_file].is_new_file = TRUE]
       \/ /\ DELETED_FILE_MODE_PATTERN(line)
          /\ fileHeap' = [fileHeap EXCEPT ![current_file].is_deleted_file = TRUE]
       \/ /\ RENAME_FROM_PATTERN(line)
          /\ fileHeap' = [fileHeap EXCEPT ![current_file].is_renamed = TRUE,
                                          ![current_file].old_filename = "old.py"]
    /\ UNCHANGED <<hunkHeap, file_diffs, current_file, current_hunk, dpc>>

\* Whether the line is taken by one of the branches before the '@@' branch.
TakenBeforeHunkHeader(line) ==
    \/ StartsWithDiffGit(line)
    \/ /\ current_file # NoRef
       /\ \/ NEW_FILE_MODE_PATTERN(line)
          \/ DELETED_FILE_MODE_PATTERN(line)
          \/ RENAME_FROM_PATTERN(line)

\* The branch of a line starting with '@@'.  With a hunk open and no file
\* open, current_file.hunks is an attribute access on None: AttributeError.
LineHunkHeader(line) ==
    /\ ~TakenBeforeHunkHeader(line)
    /\ StartsWithAtAt(line)
    /\ IF current_hunk # NoRef /\ current_file = NoRef
       THEN /\ dpc' = "raised"
            /\ UNCHANGED <<fileHeap, hunkHeap, file_diffs, current_file, current_hunk>>
       ELSE /\ fileHeap' = IF current_hunk # NoRef
                           THEN AppendHunk(fileHeap, current_file, current_hunk)
                           ELSE fileHeap
            /\ IF HUNK_HEADER_PATTERN(line)
               THEN /\ hunkHeap' = Append(hunkHeap, NewHunkChange(line))
                    /\ current_hunk' = Len(hunkHeap) + 1
               ELSE UNCHANGED <<hunkHeap, current_hunk>>
            /\ UNCHANGED <<file_diffs, current_file, dpc>>

\* The branch of the content lines: taken whenever a hunk is open.  An added
\* or removed line is appended to the hunk and then counted on current_file,
\* which is an attribute access on None when no file is open.
LineContent(line) ==
    /\ ~TakenBeforeHunkHeader(line)
    /\ ~StartsWithAtAt(line)
    /\ current_hunk # NoRef
    /\ IF IsAddedLine(line) \/ IsRemovedLine(line) \/ IsContextLine(line)
       THEN hunkHeap' = [hunkHeap EXCEPT ![current_hunk].lines =
                            Append(@, NewLineChange(hunkHeap[current_hunk], line))]
       ELSE UNCHANGED hunkHeap
    /\ IF (IsAddedLine(line) \/ IsRemovedLine(line)) /\ current_file = NoRef
       THEN /\ dpc' = "raised"
            /\ UNCHANGED fileHeap
       ELSE /\ fileHeap' =
                 IF IsAddedLine(line)
                 THEN [fileHeap EXCEPT ![current_file].additions = @ + 1]
                 ELSE IF IsRemovedLine(line)
                 THEN [fileHeap EXCEPT ![current_file].deletions = @ + 1]
                 ELSE fileHeap
            /\ UNCHANGED dpc
    /\ UNCHANGED <<file_diffs, current_file, current_hunk>>

\* A line no branch takes: nothing but i += 1.
LineIgnored(line) ==
    /\ ~TakenBeforeHunkHeader(line)
    /\ ~StartsWithAtAt(line)
    /\ current_hunk = NoRef
    /\ UNCHANGED <<fileHeap, hunkHeap, file_diffs, current_file, current_hunk, dpc>>

\* One iteration of `while i < len(lines)`.
ParseLine ==
    /\ dpc = "loop"
    /\ Len(lines) < MaxLines
    /\ UNCHANGED <<graphVars, riskVars, scoreVars, confVars, catVars, walkVars>>
    /\ \E line \in LineTokens :
          /\ lines' = Append(lines, line)
          /\ \/ LineFileHeader(line)
             \/ LineFileMode(line)
             \/ LineHunkHeader(line)
             \/ LineContent(line)
             \/ LineIgnored(line)

\* After the loop: the last file is added and the languages are detected.
ParseFinish ==
    /\ dpc = "loop"
    /\ Len(lines) >= 1
    /\ LET flushed == IF current_file # NoRef /\ current_hunk # NoRef
                      THEN AppendHunk(fileHeap, current_file, current_hunk)
                      ELSE fileHeap
           fds == IF current_file # NoRef
                  THEN Append(file_diffs, current_file) ELSE file_diffs
       IN /\ file_diffs' = fds
          /\ fileHeap' = [f \in 1..Len(flushed) |->
                            IF \E k \in 1..Len(fds) : fds[k] = f
                            THEN [flushed[f] EXCEPT
                                    !.language = DetectLanguage(flushed[f].filename)]
                            ELSE flushed[f]]
    /\ dpc' = "done"
    /\ UNCHANGED <<lines, hunkHeap, current_file, current_hunk>>
    /\ UNCHANGED <<graphVars, riskVars, scoreVars, confVars, catVars, walkVars>>

\* The call is over (returned or raised); its locals are gone.
ParseReturn ==
    /\ dpc \in {"done", "raised"}
    /\ dpc' = "idle"
    /\ lines' = <<>>
    /\ fileHeap' = <<>>
    /\ hunkHeap' = <<>>
    /\ file_diffs' = <<>>
    /\ current_file' = NoRef
    /\ current_hunk' = NoRef
    /\ UNCHANGED <<graphVars, riskVars, scoreVars, confVars, catVars, walkVars>>

(***************************************************************************)
(* DependencyGraph                                                         *)
(***************************************************************************)

\* The file paths and module names of the model.  The extension decides the
\* language _detect_language finds: python, javascript, none.
Nodes == {"a.py", "b.js", "c"}

\* Bounds: the edges one instance accumulates, the max_depth argument and
\* the length of the changed_files list.
MaxEdges == 3
MaxDepthArg == 2
MaxChanged == 2

\* The statements of a file content.  mods are the module names written in
\* the statement, in order ("*" is the wildcard):
\*   "from"    from <m> import x          "import"  import <m1>[, <m2>]
\*   "es"      import x from '<m>'        "require" const x = require('<m>')
\*   "other"   a line none of the patterns matches
PyStatements ==
    {[kind |-> "from", mods |-> <<m>>] : m \in Nodes}
    \cup {[kind |-> "import", mods |-> <<m>>] : m \in Nodes \cup {"*"}}
    \cup {[kind |-> "import", mods |-> <<p[1], p[2]>>] :
              p \in {q \in Nodes \X Nodes : q[1] # q[2]}}
    \cup {[kind |-> "other", mods |-> <<>>]}
JsStatements ==
    {[kind |-> k, mods |-> <<m>>] : k \in {"es", "require"}, m \in Nodes}
    \cup {[kind |-> "other", mods |-> <<>>]}

\* The file contents: no statement or one statement.
Contents(stmts) == {<<>>} \cup {<<s>> : s \in stmts}

\* dict.get(key, default) on one of the two adjacency maps.
Get(graph, key) == IF key \in DOMAIN graph THEN graph[key] ELSE {}

\* Lookups by subscript: self.graph[key] on a defaultdict(set) makes an
\* empty entry for a key it does not hold.
AfterLookups_Subscript(graph, keys) ==
    [k \in DOMAIN graph \cup keys |-> Get(graph, k)]

\* The map after graph.get(key, default) for each of the keys: get makes no
\* entry, on a defaultdict as on a dict.
AfterLookups(graph, keys) == graph

\* AddEdge that starts the set of the key anew.
AddEdge_Replace(graph, key, value) ==
    [k \in DOMAIN graph \cup {key} |-> IF k = key THEN {value} ELSE graph[k]]

\* defaultdict: graph[key].add(value)
AddEdge(graph, key, value) ==
    [k \in DOMAIN graph \cup {key} |->
        IF k = key THEN Get(graph, key) \cup {value} ELSE graph[k]]

\* DependencyGraph._detect_language
GraphDetectLanguage(filepath) ==
    IF filepath = "a.py" THEN "python"
    ELSE IF filepath = "b.js" THEN "javascript"
    ELSE "None"

\* ImportStatement(...); no module name of the model starts with '.'.
NewImportStatement(filepath, module, type) ==
    [source_file |-> filepath, imported_module |-> module,
     import_type |-> type, is_relative |-> FALSE]

RECURSIVE ModulesOfImport(_, _)
\* `import m1, m2`: one ImportStatement per comma-separated name but '*'.
ModulesOfImport(filepath, mods) ==
    IF mods = <<>> THEN <<>>
    ELSE (IF Head(mods) # "*"
          THEN <<NewImportStatement(filepath, Head(mods), "import")>>
          ELSE <<>>) \o ModulesOfImport(filepath, Tail(mods))

RECURSIVE ParsePythonImports(_, _)
\* DependencyGraph._parse_python_imports
ParsePythonImports(filepath, content) ==
    IF content = <<>> THEN <<>>
    ELSE LET s == Head(content)
         IN (IF s.kind = "from"
             THEN <<NewImportStatement(filepath, s.mods[1], "from_import")>>
             ELSE IF s.kind = "import"
             THEN ModulesOfImport(filepath, s.mods)
             ELSE <<>>) \o ParsePythonImports(filepath, Tail(content))

RECURSIVE ImportsOfKind(_, _, _, _)
ImportsOfKind(filepath, content, kind, type) ==
    IF content = <<>> THEN <<>>
    ELSE (IF Head(content).kind = kind
          THEN <<NewImportStatement(filepath, Head(content).mods[1], type)>>
          ELSE <<>>) \o ImportsOfKind(filepath, Tail(content), kind, type)

\* DependencyGraph._parse_javascript_imports: the ES imports, then the requires.
ParseJavascriptImports(filepath, content) ==
    ImportsOfKind(filepath, content, "es", "import")
        \o ImportsOfKind(filepath, content, "require", "require")

RECURSIVE AddImports(_, _, _)
\* for imp in imports: self.import_graph[filepath].add(imp.imported_module)
AddImports(graph, filepath, imports) ==
    IF imports = <<>> THEN graph
    ELSE AddImports(AddEdge(graph, filepath, Head(imports).imported_module),
                    filepath, Tail(imports))

\* AddImporters that leaves the reverse map alone.
AddImporters_Forgotten(graph, filepath, imports) == graph

RECURSIVE AddImporters(_, _, _)
\* for imp in imports: self.reverse_graph[imp.imported_module].add(filepath)
AddImporters(graph, filepath, imports) ==
    IF imports = <<>> THEN graph
    ELSE AddImporters(AddEdge(graph, Head(imports).imported_module, filepath),
                      filepath, Tail(imports))

\* The (file, module) edges of the forward map.
Edges(graph) == {<<f, m>> \in Nodes \X Nodes : m \in Get(graph, f)}

\* DependencyGraph.analyze_file_dependencies(filepath, content, language)
AnalyzeFileDependencies(filepath, content, language) ==
    LET lang == IF language = "None" THEN GraphDetectLanguage(filepath) ELSE language
        imports == IF lang = "python" THEN ParsePythonImports(filepath, content)
                   ELSE IF lang \in {"javascript", "typescript"}
                   THEN ParseJavascriptImports(filepath, content)
                   ELSE <<>>
        file_dep == [filepath |-> filepath, imports |-> imports, imported_by |-> <<>>,
                     imports_from |-> [k \in 1..Len(imports) |-> imports[k].imported_module]]
    IN /\ dependencies' = [f \in DOMAIN dependencies \cup {filepath} |->
                              IF f = filepath THEN file_dep ELSE dependencies[f]]
       /\ import_graph' = AddImports(import_graph, filepath, imports)
       /\ reverse_graph' = AddImporters(reverse_graph, filepath, imports)
       /\ Cardinality(Edges(import_graph')) <= MaxEdges
       /\ UNCHANGED gq

\* The language argument of a call: omitted (auto-detected from the
\* extension), or given for the file whose extension is not known.
LanguageArgs(filepath) ==
    IF GraphDetectLanguage(filepath) = "None" THEN {"None", "python"} ELSE {"None"}

Analyze ==
    /\ gq.op = "none"
    /\ \E filepath \in Nodes :
          \E language \in LanguageArgs(filepath) :
             LET lang == IF language = "None" THEN GraphDetectLanguage(filepath)
                         ELSE language
             IN \E content \in Contents(IF lang = "javascript" THEN JsStatements
                                        ELSE PyStatements) :
                   AnalyzeFileDependencies(filepath, content, language)
    /\ UNCHANGED <<diffVars, riskVars, scoreVars, confVars, catVars, walkVars>>

\* impact[file] = value  (a dict as a function on its key set)
DictSet(d, key, value) ==
    [k \in DOMAIN d \cup {key} |-> IF k = key THEN value ELSE d[k]]

\* for k in keys: d.pop(k, None)
DictPopAll(d, keys) == [k \in DOMAIN d \ keys |-> d[k]]

Min(a, b) == IF a <= b THEN a ELSE b

\* The elements of a list.
Range(seq) == {seq[k] : k \in 1..Len(seq)}

\* The first lines of traverse(file, depth): the file is marked visited and
\* impact[file] = min(impact.get(file, depth), depth).
TraverseVisit(st, file, depth) ==
    [visited |-> st.visited \cup {file},
     impact |-> DictSet(st.impact, file,
                        Min(IF file \in DOMAIN st.impact THEN st.impact[file]
                            ELSE depth, depth))]

\* The guard of traverse: `if depth > max_depth or file in visited: return`.
TraverseReturns(st, file, depth, max_depth) ==
    depth > max_depth \/ file \in st.visited

RECURSIVE Traverse(_, _, _, _), TraverseEach(_, _, _, _)
\* get_impact_radius.traverse(file, depth) from the state st = (visited,
\* impact) of the enclosing call: the set of states it can end in, one for
\* each order in which the neighbour sets can be iterated.
Traverse(st, file, depth, max_depth) ==
    IF TraverseReturns(st, file, depth, max_depth) THEN {st}
    ELSE TraverseEach(TraverseVisit(st, file, depth),
                      Get(reverse_graph, file), depth + 1, max_depth)
\* `for dependent in self.reverse_graph.get(file, []): traverse(dependent,
\* depth + 1)` over the dependents not yet iterated.
TraverseEach(st, dependents, depth, max_depth) ==
    IF dependents = {} THEN {st}
    ELSE UNION {UNION {TraverseEach(st2, dependents \ {d}, depth, max_depth) :
                          st2 \in Traverse(st, d, depth, max_depth)} :
                   d \in dependents}

RECURSIVE TraverseChanged(_, _, _)
\* `for changed_file in changed_files: traverse(changed_file, 0)`
TraverseChanged(sts, changed_files, max_depth) ==
    IF changed_files = <<>> THEN sts
    ELSE TraverseChanged(UNION {Traverse(st, Head(changed_files), 0, max_depth) :
                                   st \in sts},
                         Tail(changed_files), max_depth)

\* RemoveChanged with the removal forgotten.
RemoveChanged_Kept(impact, changed_files) == impact

\* The changed files are removed from the map before it is returned.
RemoveChanged(impact, changed_files) == DictPopAll(impact, Range(changed_files))

\* The traversals of one get_impact_radius call: the states (visited,
\* impact) the loop over changed_files can end in.
ImpactRuns(changed_files, max_depth) ==
    TraverseChanged({[visited |-> {}, impact |-> <<>>]}, changed_files, max_depth)

\* DependencyGraph.get_impact_radius: the maps it can return.
ImpactRadius(changed_files, max_depth) ==
    {RemoveChanged(st.impact, changed_files) :
        st \in ImpactRuns(changed_files, max_depth)}

\* The lists of changed files: no file twice, at most MaxChanged files.
ChangedLists ==
    UNION {{l \in [1..n -> Nodes] : \A i, j \in 1..n : i # j => l[i] # l[j]} :
              n \in 0..MaxChanged}

GetImpactRadius ==
    /\ gq.op = "none"
    /\ \E changed_files \in ChangedLists, max_depth \in 0..MaxDepthArg :
          \E st \in ImpactRuns(changed_files, max_depth) :
             /\ gq' = [op |-> "get_impact_radius", changed_files |-> changed_files,
                       max_depth |-> max_depth,
                       ret |-> RemoveChanged(st.impact, changed_files)]
             \* self.reverse_graph.get(file, []) for each file visited
             /\ reverse_graph' = AfterLookups(reverse_graph, st.visited)
    /\ UNCHANGED <<dependencies, import_graph>>
    /\ UNCHANGED <<diffVars, riskVars, scoreVars, confVars, catVars, walkVars>>

\* path.index(file): the first position of file in path.
IndexOf(path, file) == CHOOSE k \in 1..Len(path) :
                          path[k] = file /\ \A j \in 1..(k - 1) : path[j] # file

\* CycleFrom with the slice taken from the start of the path.
CycleFrom_WholePath(path, file) == path \o <<file>>

\* cycle = path[cycle_start:] + [file]
CycleFrom(path, file) ==
    SubSeq(path, IndexOf(path, file), Len(path)) \o <<file>>

RECURSIVE Dfs(_, _), DfsEach(_, _)
\* detect_circular_dependencies.dfs(file) from the state st = (cycles,
\* visited, path): the set of states it can end in.
Dfs(st, file) ==
    IF file \in Range(st.path)
    THEN {[st EXCEPT !.cycles = Append(@, CycleFrom(st.path, file))]}
    ELSE IF file \in st.visited THEN {st}
    ELSE {[st2 EXCEPT !.path = SubSeq(@, 1, Len(@) - 1)] :
             st2 \in DfsEach([st EXCEPT !.visited = @ \cup {file},
                                        !.path = Append(@, file)],
                             Get(import_graph, file))}
\* `for imported in self.import_graph.get(file, []): dfs(imported)`
DfsEach(st, imported) ==
    IF imported = {} THEN {st}
    ELSE UNION {UNION {DfsEach(st2, imported \ {m}) : st2 \in Dfs(st, m)} :
                   m \in imported}

\* The searches with the start file marked visited beforehand.
CircularRuns_StartVisited(start_file) ==
    Dfs([cycles |-> <<>>, visited |-> {start_file}, path |-> <<>>], start_file)

\* The searches of one detect_circular_dependencies call: the states
\* dfs(start_file) can end in.
CircularRuns(start_file) ==
    Dfs([cycles |-> <<>>, visited |-> {}, path |-> <<>>], start_file)

\* DependencyGraph.detect_circular_dependencies: the lists it can return.
CircularDependencies(start_file) ==
    {st.cycles : st \in CircularRuns(start_file)}

DetectCircularDependencies ==
    /\ gq.op = "none"
    /\ \E start_file \in Nodes :
          \E st \in CircularRuns(start_file) :
             /\ gq' = [op |-> "detect_circular_dependencies",
                       start_file |-> start_file, ret |-> st.cycles]
             \* self.import_graph.get(file, []) for each file visited
             /\ import_graph' = AfterLookups(import_graph, st.visited)
    /\ UNCHANGED <<dependencies, reverse_graph>>
    /\ UNCHANGED <<diffVars, riskVars, scoreVars, confVars, catVars, walkVars>>

RECURSIVE DepthDfs(_, _, _), DepthDfsEach(_, _, _)
\* get_dependency_depth.dfs(file, depth) from the state st = (visited,
\* max_depth): the set of states it can end in, one for each order in which
\* the import sets can be iterated.
DepthDfs(st, file, depth) ==
    IF file \in st.visited THEN {st}
    ELSE DepthDfsEach([visited |-> st.visited \cup {file},
                       max_depth |-> IF depth > st.max_depth THEN depth
                                     ELSE st.max_depth],
                      Get(import_graph, file), depth + 1)
\* `for imported in self.import_graph.get(file, []): dfs(imported, depth + 1)`
DepthDfsEach(st, imported, depth) ==
    IF imported = {} THEN {st}
    ELSE UNION {UNION {DepthDfsEach(st2, imported \ {m}, depth) :
                          st2 \in DepthDfs(st, m, depth)} :
                   m \in imported}

\* The searches with the first call made at depth 1.
DepthRuns_StartAtOne(filepath) ==
    DepthDfs([visited |-> {}, max_depth |-> 0], filepath, 1)

\* The searches of one get_dependency_depth call: the states dfs(filepath,
\* 0) can end in.
DepthRuns(filepath) ==
    DepthDfs([visited |-> {}, max_depth |-> 0], filepath, 0)

\* DependencyGraph.get_dependency_depth: the depths it can return.
DependencyDepth(filepath) == {st.max_depth : st \in DepthRuns(filepath)}

GetDependencyDepth ==
    /\ gq.op = "none"
    /\ \E filepath \in Nodes :
          \E st \in DepthRuns(filepath) :
             /\ gq' = [op |-> "get_dependency_depth", filepath |-> filepath,
                       ret |-> st.max_depth]
             \* self.import_graph.get(file, []) for each file visited
             /\ import_graph' = AfterLookups(import_graph, st.visited)
    /\ UNCHANGED <<dependencies, reverse_graph>>
    /\ UNCHANGED <<diffVars, riskVars, scoreVars, confVars, catVars, walkVars>>

\* list(S): the elements of a set in one of the orders it can be iterated.
ListsOf(S) ==
    {l \in [1..Cardinality(S) -> S] :
        \A i, j \in 1..Cardinality(S) : i # j => l[i] # l[j]}

\* DependencyGraph.get_coupled_modules: list(imports & imported_by), the
\* lists it can return.
CoupledModules(filepath) ==
    ListsOf(Get(import_graph, filepath) \cap Get(reverse_graph, filepath))

GetCoupledModules ==
    /\ gq.op = "none"
    /\ \E filepath \in Nodes :
          \E coupled \in CoupledModules(filepath) :
             /\ gq' = [op |-> "get_coupled_modules", filepath |-> filepath,
                       ret |-> coupled]
             \* self.import_graph.get(filepath, set()) and
             \* self.reverse_graph.get(filepath, set())
             /\ import_graph' = AfterLookups(import_graph, {filepath})
             /\ reverse_graph' = AfterLookups(reverse_graph, {filepath})
    /\ UNCHANGED dependencies
    /\ UNCHANGED <<diffVars, riskVars, scoreVars, confVars, catVars, walkVars>>

RECURSIVE ExternalOf(_)
\* [imp.imported_module for imp in imports if not imp.is_relative]
ExternalOf(imports) ==
    IF imports = <<>> THEN <<>>
    ELSE (IF Head(imports).is_relative THEN <<>>
          ELSE <<Head(imports).imported_module>>) \o ExternalOf(Tail(imports))

\* DependencyGraph.get_external_dependencies
ExternalDependencies(filepath) ==
    IF filepath \notin DOMAIN dependencies THEN <<>>
    ELSE ExternalOf(dependencies[filepath].imports)

GetExternalDependencies ==
    /\ gq.op = "none"
    /\ \E filepath \in Nodes :
          gq' = [op |-> "get_external_dependencies", filepath |-> filepath,
                 ret |-> ExternalDependencies(filepath)]
    /\ UNCHANGED <<dependencies, import_graph, reverse_graph>>
    /\ UNCHANGED <<diffVars, riskVars, scoreVars, confVars, catVars, walkVars>>

\* coupling_scores[filepath] = len(deps.imports) + len(reverse_graph.get(..))
CouplingScore(filepath) ==
    Len(dependencies[filepath].imports)
        + Cardinality(Get(reverse_graph, filepath))

\* sorted(coupling_scores.items(), key=score, reverse=True)[:5]: the files
\* by descending score.  Files of equal score keep the insertion order of
\* self.dependencies, which the model does not record: each order of them
\* is allowed.
MostCoupled ==
    {[k \in 1..Len(l) |-> [file |-> l[k], coupling_score |-> CouplingScore(l[k])]] :
        l \in {m \in ListsOf(DOMAIN dependencies) :
                  \A i, j \in 1..Len(m) :
                      i < j => CouplingScore(m[i]) >= CouplingScore(m[j])}}

RECURSIVE TotalImports(_)
\* sum(len(deps.imports) for deps in self.dependencies.values())
TotalImports(files) ==
    IF files = {} THEN 0
    ELSE LET f == CHOOSE x \in files : TRUE
         IN Len(dependencies[f].imports) + TotalImports(files \ {f})

\* DependencyGraph.summarize_graph: the summaries it can return.
GraphSummaries ==
    LET total_files == Cardinality(DOMAIN dependencies)
        total_imports == TotalImports(DOMAIN dependencies)
    IN {[total_files |-> total_files,
         total_imports |-> total_imports,
         avg_imports_per_file |->
            IF total_files > 0 THEN Frac(total_imports, total_files) ELSE FracOf(0),
         most_coupled_files |-> most_coupled] :
           most_coupled \in MostCoupled}

SummarizeGraph ==
    /\ gq.op = "none"
    /\ \E summary \in GraphSummaries :
          gq' = [op |-> "summarize_graph", ret |-> summary]
    \* self.reverse_graph.get(filepath, []) for each analysed file
    /\ reverse_graph' = AfterLookups(reverse_graph, DOMAIN dependencies)
    /\ UNCHANGED <<dependencies, import_graph>>
    /\ UNCHANGED <<diffVars, riskVars, scoreVars, confVars, catVars, walkVars>>

\* The caller is done with the result of the last query.
QueryReturn ==
    /\ gq.op # "none"
    /\ gq' = [op |-> "none"]
    /\ UNCHANGED <<dependencies, import_graph, reverse_graph>>
    /\ UNCHANGED <<diffVars, riskVars, scoreVars, confVars, catVars, walkVars>>

InitGraph ==
    /\ dependencies = <<>>
    /\ import_graph = <<>>
    /\ reverse_graph = <<>>
    /\ gq = [op |-> "none"]

NextGraph ==
    \/ Analyze
    \/ GetImpactRadius
    \/ DetectCircularDependencies
    \/ GetDependencyDepth
    \/ GetCoupledModules
    \/ GetExternalDependencies
    \/ SummarizeGraph
    \/ QueryReturn


(***************************************************************************)
(* RiskDetector                                                            *)
(***************************************************************************)

\* Bound: the number of findings of one detector.
MaxFindings == 3

\* RiskLevel
RiskLevels == {"low", "medium", "high", "critical"}

\* level_weights with MEDIUM weighing 0.2.
LevelWeight_MediumLight(level) ==
    CASE level = "low" -> 1
      [] level = "medium" -> 2
      [] level = "high" -> 6
      [] level = "critical" -> 10

\* level_weights, in tenths.
LevelWeight(level) ==
    CASE level = "low" -> 1
      [] level = "medium" -> 3
      [] level = "high" -> 6
      [] level = "critical" -> 10

RECURSIVE TotalScore(_)
\* total_score = sum(level_weights[finding.level] for finding in findings),
\* in tenths.
TotalScore(fs) ==
    IF fs = <<>> THEN 0 ELSE LevelWeight(Head(fs).level) + TotalScore(Tail(fs))

\* ClampToOne with the clamp forgotten.
ClampToOne_Unclamped(x) == x

\* min(x, 1.0)
ClampToOne(x) == FracMin(x, FracOf(1))

\* RiskDetector.calculate_overall_risk_score, in hundredths.
OverallRiskScore(fs) ==
    IF fs = <<>> THEN 0
    ELSE Round2(ClampToOne(FracDiv(Frac(TotalScore(fs), 10),
                                   Frac(Len(fs) * 5, 10))))

\* A RiskFinding is added to self.findings: the list is a public attribute,
\* filled by the detection steps and by detect_breaking_changes' extend.
AddFinding ==
    /\ risk_ret.op = "none"
    /\ Len(findings) < MaxFindings
    /\ \E level \in RiskLevels :
          findings' = Append(findings, [risk_type |-> "other", level |-> level,
                                        affected_files |-> <<>>])
    /\ UNCHANGED risk_ret
    /\ UNCHANGED <<diffVars, graphVars, scoreVars, confVars, catVars, walkVars>>

CalculateOverallRiskScore ==
    /\ risk_ret.op = "none"
    /\ risk_ret' = [op |-> "calculate_overall_risk_score",
                    ret |-> OverallRiskScore(findings)]
    /\ UNCHANGED findings
    /\ UNCHANGED <<diffVars, graphVars, scoreVars, confVars, catVars, walkVars>>

\* has_critical with the check forgotten.
HasCritical_Never(fs) == FALSE

\* has_critical = any(finding.level == RiskLevel.CRITICAL ...)
HasCritical(fs) == \E k \in 1..Len(fs) : fs[k].level = "critical"

\* high_risk_count = sum(1 for finding in self.findings if level == HIGH)
HighRiskCount(fs) == Cardinality({k \in 1..Len(fs) : fs[k].level = "high"})

\* RiskDetector.get_recommendation on the findings fs.
Recommendation(fs) ==
    LET risk_score == OverallRiskScore(fs)
    IN IF HasCritical(fs) \/ HighRiskCount(fs) >= 3 THEN "REQUEST_CHANGES"
       ELSE IF risk_score > 50 \/ HighRiskCount(fs) > 0 THEN "COMMENT"
       ELSE "APPROVE"

GetRecommendation ==
    /\ risk_ret.op = "none"
    /\ risk_ret' = [op |-> "get_recommendation", ret |-> Recommendation(findings)]
    /\ UNCHANGED findings
    /\ UNCHANGED <<diffVars, graphVars, scoreVars, confVars, catVars, walkVars>>

\* The caller is done with the result of the last call.
RiskReturn ==
    /\ risk_ret.op # "none"
    /\ risk_ret' = [op |-> "none"]
    /\ UNCHANGED findings
    /\ UNCHANGED <<diffVars, graphVars, scoreVars, confVars, catVars, walkVars>>

InitRisk ==
    /\ findings = <<>>
    /\ risk_ret = [op |-> "none"]

NextRisk ==
    \/ AddFinding
    \/ CalculateOverallRiskScore
    \/ GetRecommendation
    \/ RiskReturn

(***************************************************************************)
(* calculate_risk_score (app/review/scorer.py)                             *)
(***************************************************************************)

\* Bound: the number of comments of the review given to the scorer.
ScoreMaxComments == 1

\* The sequences over S of length at most n.
SeqsUpTo(S, n) == UNION {[1..k -> S] : k \in 0..n}

\* n copies of x.
Repeat(x, n) == [k \in 1..n |-> x]

\* ReviewComment: severity, category and confidence (in tenths, 0.0 .. 1.0).
ScoreComments ==
    [severity : {"info", "warning", "error", "critical"},
     category : {"security", "logic"},
     confidence : {10}]
    \cup [severity : {"critical"}, category : {"logic"}, confidence : {5}]

\* diff_info: total_changes and the files, counted by what the scorer tells
\* apart in a name: "test" in it, a .md/.txt ending, anything else.
ScoreDiffInfos ==
    [total_changes : {10, 1500},
     files : {[test |-> 0, doc |-> 0, prod |-> 0],
              [test |-> 2, doc |-> 0, prod |-> 0],
              [test |-> 0, doc |-> 12, prod |-> 0],
              [test |-> 0, doc |-> 0, prod |-> 1],
              [test |-> 3, doc |-> 2, prod |-> 25]}]

\* static_analysis: None, or a dict in which each of the keys "complexity",
\* "security" and "coverage" is present or not.  high_complexity_functions
\* is the list of the functions' complexity values, issues the list of the
\* issues' severities, coverage_percentage a percentage.
ScoreStaticAnalyses ==
    [present : {FALSE}, has_complexity : {FALSE}, high_complexity_functions : {<<>>},
     has_security : {FALSE}, issues : {<<>>},
     has_coverage : {FALSE}, coverage_percentage : {0}]
    \cup
    ([present : {TRUE}, has_complexity : {TRUE},
      high_complexity_functions : {<<>>, <<12>>, Repeat(25, 10)},
      has_security : {FALSE}, issues : {<<>>},
      has_coverage : {FALSE}, coverage_percentage : {0}]
     \cup
     [present : {TRUE}, has_complexity : {FALSE}, high_complexity_functions : {<<>>},
      has_security : {TRUE}, issues : {<<"LOW">>, <<"MEDIUM", "MEDIUM", "MEDIUM">>, <<"HIGH">>},
      has_coverage : {TRUE}, coverage_percentage : {0, 100}])

\* The keys of risk_signals.
SignalKeys == {"is_large_pr", "critical_files", "has_db_migration",
               "security_sensitive_files", "missing_tests"}

\* risk_signals: None, the empty dict, or a dict of the five keys of which
\* those in `truthy` have a truthy value.
ScoreRiskSignals ==
    {[present |-> FALSE, keys |-> {}, truthy |-> {}],
     [present |-> TRUE, keys |-> {}, truthy |-> {}]}
    \cup [present : {TRUE}, keys : {SignalKeys}, truthy : SUBSET SignalKeys]

\* severity_weights
SeverityWeight(severity) ==
    CASE severity = "critical" -> 100
      [] severity = "error" -> 60
      [] severity = "warning" -> 30
      [] severity = "info" -> 5

RECURSIVE TotalWeight(_)
\* total_weight: the sum of weight * comment.confidence over the comments.
TotalWeight(comments) ==
    IF comments = <<>> THEN FracOf(0)
    ELSE FracAdd(FracMul(FracOf(SeverityWeight(Head(comments).severity)),
                         Frac(Head(comments).confidence, 10)),
                 TotalWeight(Tail(comments)))

Max(a, b) == IF a >= b THEN a ELSE b

\* _calculate_severity_score
CalculateSeverityScore(comments) ==
    IF comments = <<>> THEN FracOf(0)
    ELSE FracMin(FracOf(100),
                 FracMul(FracDiv(TotalWeight(comments),
                                 FracOf(Max(Len(comments), 1))),
                         Frac(15, 10)))

RECURSIVE SumSeq(_)
SumSeq(q) == IF q = <<>> THEN 0 ELSE Head(q) + SumSeq(Tail(q))

\* _calculate_complexity_score
CalculateComplexityScore(sa) ==
    IF ~sa.present \/ ~sa.has_complexity THEN FracOf(30)
    ELSE IF sa.high_complexity_functions = <<>> THEN FracOf(10)
    ELSE LET hc == sa.high_complexity_functions
             avg_complexity == Frac(SumSeq(hc), Len(hc))
             ladder == IF FracLt(FracOf(20), avg_complexity) THEN 90
                       ELSE IF FracLt(FracOf(15), avg_complexity) THEN 70
                       ELSE IF FracLt(FracOf(10), avg_complexity) THEN 50
                       ELSE 30
             num_complex == Min(Len(hc), 10)
         IN FracMin(FracOf(100),
                    FracMul(FracOf(ladder), Frac(50 + 5 * num_complex, 100)))

\* len(diff_info.get("files", []))
FilesChanged(diff_info) ==
    diff_info.files.test + diff_info.files.doc + diff_info.files.prod

\* _calculate_size_score
CalculateSizeScore(diff_info) ==
    LET lines_changed == diff_info.total_changes
        files_changed == FilesChanged(diff_info)
        lines_score == IF lines_changed < 50 THEN 5
                       ELSE IF lines_changed < 200 THEN 20
                       ELSE IF lines_changed < 500 THEN 40
                       ELSE IF lines_changed < 1000 THEN 60
                       ELSE 80
        files_score == IF files_changed < 3 THEN 5
                       ELSE IF files_changed < 10 THEN 20
                       ELSE IF files_changed < 25 THEN 40
                       ELSE 60
    IN FracAdd(FracMul(FracOf(lines_score), Frac(7, 10)),
               FracMul(FracOf(files_score), Frac(3, 10)))

\* len([i for i in issues if i.get("severity") in severities])
CountSeverity(issues, severities) ==
    Cardinality({k \in 1..Len(issues) : issues[k] \in severities})

\* _calculate_security_score
CalculateSecurityScore(comments, sa) ==
    LET security_comments ==
            {k \in 1..Len(comments) : comments[k].category = "security"}
        critical_security ==
            {k \in security_comments : comments[k].severity \in {"critical", "error"}}
        score == IF security_comments = {} THEN 0
                 ELSE IF critical_security # {} THEN 95 ELSE 60
    IN IF sa.present /\ sa.has_security /\ sa.issues # <<>>
       THEN IF CountSeverity(sa.issues, {"HIGH", "CRITICAL"}) > 0
            THEN Max(score, 90)
            ELSE IF CountSeverity(sa.issues, {"MEDIUM"}) > 2
            THEN Max(score, 60)
            ELSE Max(score, 40)
       ELSE score

\* _calculate_test_coverage_score
CalculateTestCoverageScore(diff_info, sa) ==
    LET files == diff_info.files
        has_tests == files.test > 0
        only_tests == files.test > 0 /\ files.doc = 0 /\ files.prod = 0
        has_production_code == files.prod > 0
    IN IF only_tests THEN 0
       ELSE IF has_production_code /\ ~has_tests THEN 70
       ELSE IF has_production_code /\ has_tests THEN 30
       ELSE IF sa.present /\ sa.has_coverage
       THEN Max(0, 100 - sa.coverage_percentage)
       ELSE 40

\* _apply_risk_signal_modifiers with the final cap forgotten.
CapAt100_Uncapped(score) == score

\* min(100, score)
CapAt100(score) == FracMin(FracOf(100), score)

\* One `if risk_signals.get(key): score *= factor` of the modifiers.
Modifier(score, risk_signals, key, factor) ==
    IF key \in risk_signals.truthy THEN FracMul(score, factor) ELSE score

\* _apply_risk_signal_modifiers
ApplyRiskSignalModifiers(base_score, risk_signals) ==
    LET s1 == Modifier(base_score, risk_signals, "is_large_pr", Frac(12, 10))
        s2 == Modifier(s1, risk_signals, "critical_files", Frac(115, 100))
        s3 == Modifier(s2, risk_signals, "has_db_migration", Frac(125, 100))
        s4 == Modifier(s3, risk_signals, "security_sensitive_files", Frac(12, 10))
        s5 == Modifier(s4, risk_signals, "missing_tests", Frac(11, 10))
    IN CapAt100(s5)

\* The weighted average of the five component scores.
WeightedTotal(severity, security, complexity, size, test_coverage) ==
    FracAdd(FracMul(severity, Frac(35, 100)),
    FracAdd(FracMul(security, Frac(25, 100)),
    FracAdd(FracMul(complexity, Frac(15, 100)),
    FracAdd(FracMul(size, Frac(15, 100)),
            FracMul(test_coverage, Frac(10, 100))))))

\* `if risk_signals:` a dict that is not None and not empty.
SignalsTruthy(risk_signals) == risk_signals.present /\ risk_signals.keys # {}

\* The level of a total score.
RiskScoreLevel(total) ==
    IF FracLe(total, FracOf(25)) THEN "low"
    ELSE IF FracLe(total, FracOf(50)) THEN "medium"
    ELSE IF FracLe(total, FracOf(75)) THEN "high"
    ELSE "critical"

\* calculate_risk_score(review, diff_info, static_analysis, risk_signals)
RiskScoreOf(comments, diff_info, sa, risk_signals) ==
    LET severity_score == CalculateSeverityScore(comments)
        complexity_score == CalculateComplexityScore(sa)
        size_score == CalculateSizeScore(diff_info)
        security_score == FracOf(CalculateSecurityScore(comments, sa))
        test_coverage_score == FracOf(CalculateTestCoverageScore(diff_info, sa))
        base == WeightedTotal(severity_score, security_score, complexity_score,
                              size_score, test_coverage_score)
        total_score == IF SignalsTruthy(risk_signals)
                       THEN ApplyRiskSignalModifiers(base, risk_signals)
                       ELSE base
    IN [total |-> total_score,
        level |-> RiskScoreLevel(total_score),
        severity_score |-> severity_score,
        complexity_score |-> complexity_score,
        size_score |-> size_score,
        security_score |-> security_score,
        test_coverage_score |-> test_coverage_score,
        blocking_issues |-> Cardinality({k \in 1..Len(comments) :
                               comments[k].severity \in {"critical", "error"}}),
        total_issues |-> Len(comments),
        lines_changed |-> diff_info.total_changes,
        files_changed |-> FilesChanged(diff_info)]

CalculateRiskScore ==
    /\ score_ret.op = "none"
    /\ \E comments \in SeqsUpTo(ScoreComments, ScoreMaxComments),
          diff_info \in ScoreDiffInfos,
          sa \in ScoreStaticAnalyses,
          risk_signals \in ScoreRiskSignals :
          score_ret' = [op |-> "calculate_risk_score",
                        risk_signals |-> risk_signals,
                        ret |-> RiskScoreOf(comments, diff_info, sa, risk_signals)]
    /\ UNCHANGED <<diffVars, graphVars, riskVars, confVars, catVars, walkVars>>

\* The caller is done with the RiskScore.
ScoreReturn ==
    /\ score_ret.op # "none"
    /\ score_ret' = [op |-> "none"]
    /\ UNCHANGED <<diffVars, graphVars, riskVars, confVars, catVars, walkVars>>

InitScore == score_ret = [op |-> "none"]

NextScore ==
    \/ CalculateRiskScore
    \/ ScoreReturn

(***************************************************************************)
(* ConfidenceEvaluator (app/agents/confidence.py)                          *)
(***************************************************************************)

\* Bound: the number of comments of the review given to the evaluator.
ConfMaxComments == 1

\* ReviewComment: severity, category and confidence (in tenths).
ConfComments ==
    [severity : {"warning", "critical"},
     category : {"security", "logic"},
     confidence : {5, 9}]

\* A value of the context dict under a key: the key is absent, its value
\* is None, or its value is a dict.
DictShapes == {"absent", "None", "dict"}

\* context["diff_info"]: total_changes, the files (counted by whether
\* "test" is in the lowercased name) and the languages.
ConfDiffInfos ==
    [shape : {"absent", "None"}, total_changes : {0},
     files : {[test |-> 0, other |-> 0]}, languages : {<<>>}]
    \cup
    [shape : {"dict"}, total_changes : {10, 300, 700, 1500},
     files : {[test |-> 0, other |-> 0], [test |-> 0, other |-> 1],
              [test |-> 1, other |-> 2]},
     languages : {<<>>, <<"Python">>, <<"javascript">>}]

\* context["static_analysis"]: for each tool the length of the list under
\* files_analyzed.
ConfStaticAnalyses ==
    [shape : {"absent", "None"}, linting : {0}, security : {0}, complexity : {0}]
    \cup
    {[shape |-> "dict", linting |-> q[1], security |-> q[2], complexity |-> q[3]] :
        q \in {<<0, 0, 0>>, <<1, 1, 1>>, <<3, 0, 0>>, <<3, 3, 3>>}}

\* context["pr_info"]: whether description is truthy.
ConfPrInfos ==
    [shape : {"absent", "None"}, description : {FALSE}]
    \cup [shape : {"dict"}, description : BOOLEAN]

\* context: None, or a dict of diff_info, static_analysis, pr_info and
\* file_context (truthy or not).
ConfContexts ==
    [shape : {"None"},
     diff_info : {[shape |-> "absent", total_changes |-> 0,
                   files |-> [test |-> 0, other |-> 0], languages |-> <<>>]},
     static_analysis : {[shape |-> "absent", linting |-> 0, security |-> 0,
                         complexity |-> 0]},
     pr_info : {[shape |-> "absent", description |-> FALSE]},
     file_context : {FALSE}]
    \cup
    [shape : {"dict"}, diff_info : ConfDiffInfos,
     static_analysis : ConfStaticAnalyses, pr_info : ConfPrInfos,
     file_context : BOOLEAN]

\* str.lower() on the texts of the model (all others are lower case).
Lower(str) ==
    CASE str = "Python" -> "python"
      [] str = "db/Migrations/0005_x.py" -> "db/migrations/0005_x.py"
      [] str = "+API_KEY = 'k'" -> "+api_key = 'k'"
      [] str = "README.md" -> "readme.md"
      [] str = "docs/README" -> "docs/readme"
      [] str = "Pipfile" -> "pipfile"
      [] str = "Dockerfile" -> "dockerfile"
      [] str = "Makefile" -> "makefile"
      [] OTHER -> str

\* review.get_comments_by_severity / get_comments_by_category, as indices.
CommentsBySeverity(comments, severity) ==
    {k \in 1..Len(comments) : comments[k].severity = severity}

CommentsByCategory(comments, category) ==
    {k \in 1..Len(comments) : comments[k].category = category}

\* review.has_blocking_issues()
HasBlockingIssues(comments) ==
    \E k \in 1..Len(comments) : comments[k].severity \in {"critical", "error"}

RECURSIVE SumConfidence(_, _)
\* sum(c.confidence for c in ...) over the comments at the indices, in tenths.
SumConfidence(comments, idx) ==
    IF idx = {} THEN 0
    ELSE LET k == CHOOSE x \in idx : TRUE
         IN comments[k].confidence + SumConfidence(comments, idx \ {k})

\* _extract_factors raises AttributeError: `.get` on a None context, or on
\* a None under diff_info, static_analysis or pr_info.
ExtractFactorsRaises(context) ==
    \/ context.shape = "None"
    \/ context.diff_info.shape = "None"
    \/ context.static_analysis.shape = "None"
    \/ context.pr_info.shape = "None"

\* files / max(files_changed, 1)
Coverage(files, files_changed) == Frac(files, Max(files_changed, 1))

\* _extract_factors, for a context on which it does not raise
ExtractFactors(comments, context) ==
    LET diff_info == context.diff_info
        static_analysis == context.static_analysis
        lines_changed == diff_info.total_changes
        pr_size == IF lines_changed < 100 THEN "small"
                   ELSE IF lines_changed < 500 THEN "medium"
                   ELSE IF lines_changed < 1000 THEN "large"
                   ELSE "very_large"
        files_changed == diff_info.files.test + diff_info.files.other
    IN [pr_size |-> pr_size,
        files_changed |-> files_changed,
        lines_changed |-> lines_changed,
        languages |-> diff_info.languages,
        has_tests |-> diff_info.files.test > 0,
        linting_coverage |-> Coverage(static_analysis.linting, files_changed),
        security_scan_coverage |-> Coverage(static_analysis.security, files_changed),
        complexity_analysis_coverage |->
            Coverage(static_analysis.complexity, files_changed),
        num_comments |-> Len(comments),
        avg_comment_confidence |->
            IF comments # <<>>
            THEN Frac(SumConfidence(comments, 1..Len(comments)), 10 * Len(comments))
            ELSE Frac(5, 10),
        has_critical_issues |-> HasBlockingIssues(comments),
        has_security_issues |-> CommentsByCategory(comments, "security") # {},
        has_description |-> context.pr_info.description,
        has_related_files |-> context.file_context,
        known_patterns |-> TRUE]

RECURSIVE FracSum(_)
FracSum(q) == IF q = <<>> THEN FracOf(0) ELSE FracAdd(Head(q), FracSum(Tail(q)))

\* size_scores.get(pr_size, 0.5)
SizeScore(pr_size) ==
    CASE pr_size = "small" -> Frac(100, 100)
      [] pr_size = "medium" -> Frac(85, 100)
      [] pr_size = "large" -> Frac(65, 100)
      [] pr_size = "very_large" -> Frac(45, 100)
      [] OTHER -> Frac(50, 100)

\* The ceiling of the score by the size of the PR.
SizeCeiling(pr_size, overall_confidence) ==
    IF pr_size = "very_large"
    THEN FracMin(overall_confidence, Frac(75, 100))
    ELSE overall_confidence

\* calculate_confidence_score(review, factors)
CalculateConfidenceScore(comments, factors) ==
    LET avg_coverage ==
            FracDiv(FracAdd(factors.linting_coverage,
                            FracAdd(factors.security_scan_coverage,
                                    factors.complexity_analysis_coverage)),
                    FracOf(3))
        context_score ==
            Frac(25 * Cardinality({f \in {"has_description", "has_tests",
                                          "has_related_files", "known_patterns"} :
                                      factors[f]}), 100)
        language_score ==
            IF \E k \in 1..Len(factors.languages) : Lower(factors.languages[k]) = "python"
            THEN Frac(9, 10) ELSE Frac(6, 10)
        critical_comments == CommentsBySeverity(comments, "critical")
        penalty ==
            IF /\ factors.has_critical_issues
               /\ critical_comments # {}
               /\ FracLt(Frac(SumConfidence(comments, critical_comments),
                              10 * Cardinality(critical_comments)),
                         Frac(8, 10))
            THEN <<Frac(5, 10)>> ELSE <<>>
        scores == <<SizeScore(factors.pr_size), avg_coverage,
                    factors.avg_comment_confidence, context_score,
                    language_score>> \o penalty
    IN SizeCeiling(factors.pr_size, FracDiv(FracSum(scores), FracOf(Len(scores))))

\* ConfidenceEvaluator().threshold
ConfidenceThreshold == Frac(7, 10)

\* needs_human_review(review, confidence_score, threshold)
NeedsHumanReview(comments, confidence_score, threshold) ==
    \/ FracLt(confidence_score, threshold)
    \/ /\ HasBlockingIssues(comments)
       /\ \E k \in CommentsBySeverity(comments, "critical") :
              comments[k].confidence < 8
    \/ \E k \in CommentsByCategory(comments, "security") :
           FracLt(Frac(comments[k].confidence, 10), Frac(75, 100))

\* identify_uncertain_areas(review, factors): the areas by their kind
IdentifyUncertainAreas(comments, factors) ==
    (IF factors.pr_size \in {"large", "very_large"} THEN <<"Large PR">> ELSE <<>>)
    \o (IF \E k \in 1..Len(comments) : comments[k].confidence < 7
        THEN <<"Low confidence">> ELSE <<>>)
    \o (IF FracLt(factors.linting_coverage, Frac(5, 10))
        THEN <<"Limited linting coverage">> ELSE <<>>)
    \o (IF FracLt(factors.security_scan_coverage, Frac(5, 10))
        THEN <<"Limited security scan coverage">> ELSE <<>>)
    \o (IF ~factors.has_tests THEN <<"No test files in PR">> ELSE <<>>)
    \o (IF \E k \in 1..Len(factors.languages) : Lower(factors.languages[k]) # "python"
        THEN <<"Non-Python languages">> ELSE <<>>)

\* _generate_reasoning: the quality it words the score with
ReasoningQuality(confidence_score) ==
    IF FracLe(Frac(85, 100), confidence_score) THEN "high"
    ELSE IF FracLe(Frac(7, 10), confidence_score) THEN "moderate"
    ELSE "low"

\* What evaluate returns when nothing is raised.
EvaluateResult(comments, context) ==
    LET factors == ExtractFactors(comments, context)
        confidence_score == CalculateConfidenceScore(comments, factors)
    IN [overall_confidence |-> confidence_score,
        needs_human_review |->
            NeedsHumanReview(comments, confidence_score, ConfidenceThreshold),
        reasoning |-> ReasoningQuality(confidence_score),
        uncertain_areas |-> IdentifyUncertainAreas(comments, factors)]

\* evaluate(review, context) from which the exception of _extract_factors
\* propagates: there is no handler.
EvaluateRaises ==
    /\ conf_ret.op = "none"
    /\ \E comments \in SeqsUpTo(ConfComments, ConfMaxComments),
          context \in ConfContexts :
          /\ ExtractFactorsRaises(context)
          /\ conf_ret' = [op |-> "evaluate", comments |-> comments,
                          context |-> context, raised |-> "AttributeError",
                          ret |-> [overall_confidence |-> FracOf(0),
                                   needs_human_review |-> FALSE,
                                   reasoning |-> "", uncertain_areas |-> <<>>]]
    /\ UNCHANGED <<diffVars, graphVars, riskVars, scoreVars, catVars, walkVars>>

\* evaluate(review, context) that returns its result
EvaluateReturns ==
    /\ conf_ret.op = "none"
    /\ \E comments \in SeqsUpTo(ConfComments, ConfMaxComments),
          context \in ConfContexts :
          /\ ~ExtractFactorsRaises(context)
          /\ conf_ret' = [op |-> "evaluate", comments |-> comments,
                          context |-> context, raised |-> "none",
                          ret |-> EvaluateResult(comments, context)]
    /\ UNCHANGED <<diffVars, graphVars, riskVars, scoreVars, catVars, walkVars>>

\* The caller is done with the outcome.
ConfReturn ==
    /\ conf_ret.op # "none"
    /\ conf_ret' = [op |-> "none"]
    /\ UNCHANGED <<diffVars, graphVars, riskVars, scoreVars, catVars, walkVars>>

InitConf == conf_ret = [op |-> "none"]

NextConf ==
    \/ EvaluateRaises
    \/ EvaluateReturns
    \/ ConfReturn

(***************************************************************************)
(* RiskDetector.detect_risks and detect_breaking_changes                   *)
(* (app/analysis/risk_detector.py, app/github/diff_fetcher.py)             *)
(***************************************************************************)

\* settings.LARGE_DIFF_THRESHOLD_LINES
LARGE_DIFF_THRESHOLD_LINES == 500

\* Bound: the breaking_change findings one detector accumulates.
MaxBreaking == 3

\* FileChange.patch = None
NoPatch == "<None>"

\* The patch texts of the model.
PatchPlain == "+x = 1"
PatchDrop == "+op.execute('drop table users')"
PatchAddColumn == "+op.add_column('users', c)"
PatchApiKey == "+API_KEY = 'k'"

\* str.upper() on the patch texts of the model.
Upper(str) ==
    CASE str = PatchPlain -> "+X = 1"
      [] str = PatchDrop -> "+OP.EXECUTE('DROP TABLE USERS')"
      [] str = PatchAddColumn -> "+OP.ADD_COLUMN('USERS', C)"
      [] str = PatchApiKey -> "+API_KEY = 'K'"
      [] OTHER -> str

\* The keywords and patterns the detector looks for that occur in a text
\* (`keyword in text`, re.search(pattern, text)), case-sensitively.
Substrings(text) ==
    CASE text = "db/migrations/0005_x.py" -> {"migration", "/migrations/"}
      [] text = "db/schema.sql" -> {"schema"}
      [] text = "app/config/settings.yaml" -> {"/config/"}
      [] text = "src/auth_util.py" -> {"auth"}
      [] text = "+OP.EXECUTE('DROP TABLE USERS')" -> {"DROP TABLE"}
      [] text = "+api_key = 'k'" -> {"api[_-]?key"}
      [] OTHER -> {}

\* The config extension a lower-cased filename ends with, if any.
ConfigExtension(text) ==
    IF text = "app/config/settings.yaml" THEN ".yaml" ELSE "None"

\* One file of the GitHub files list: FileChange(filename, additions,
\* deletions, changes, patch).
NewFileChange(filename, additions, deletions, patch) ==
    [filename |-> filename, additions |-> additions, deletions |-> deletions,
     changes |-> additions + deletions, patch |-> patch]

\* The files of the model, by kind.  "src/f%.py" stands for files that
\* differ in a number only.
PlainFiles ==
    {<<>>,
     <<NewFileChange("src/app.py", 6, 4, PatchPlain)>>,
     <<NewFileChange("src/app.py", 6, 4, PatchDrop)>>,
     <<NewFileChange("src/app.py", 6, 4, PatchApiKey)>>}
MigrationFiles ==
    {<<>>,
     <<NewFileChange("db/Migrations/0005_x.py", 8, 2, NoPatch)>>,
     <<NewFileChange("db/Migrations/0005_x.py", 8, 2, "")>>,
     <<NewFileChange("db/Migrations/0005_x.py", 8, 2, PatchAddColumn)>>,
     <<NewFileChange("db/Migrations/0005_x.py", 8, 2, PatchDrop)>>,
     <<NewFileChange("db/Migrations/0005_x.py", 8, 2, PatchAddColumn),
       NewFileChange("db/schema.sql", 8, 2, PatchDrop)>>}
ConfigFiles ==
    {<<>>, <<NewFileChange("app/config/settings.yaml", 5, 5, PatchPlain)>>}
AuthFiles ==
    {<<>>, <<NewFileChange("src/auth_util.py", 5, 5, PatchPlain)>>}
BigFiles ==
    {<<>>,
     <<NewFileChange("src/big.py", 200, 100, NoPatch)>>,
     <<NewFileChange("src/big.py", 200, 101, NoPatch)>>,
     <<NewFileChange("src/big.py", 200, 101, NoPatch),
       NewFileChange("src/big2.py", 400, 0, NoPatch)>>}
FillerFiles ==
    {<<>>,
     Repeat(NewFileChange("src/f%.py", 30, 19, PatchPlain), 10),
     Repeat(NewFileChange("src/f%.py", 20, 5, PatchPlain), 20),
     Repeat(NewFileChange("src/f%.py", 40, 8, PatchPlain), 25)}
\* The files lists: the plain and migration files in every combination,
\* the config and auth files with and without a migration, the big and
\* filler files in every combination, and one list with a file of every kind.
FilesData ==
    {p \o m : p \in PlainFiles, m \in MigrationFiles}
    \cup {m \o c \o a :
             m \in {<<>>, <<NewFileChange("db/Migrations/0005_x.py", 8, 2, PatchDrop)>>},
             c \in ConfigFiles, a \in AuthFiles}
    \cup {b \o f : b \in BigFiles, f \in FillerFiles}
    \cup {<<NewFileChange("src/app.py", 6, 4, PatchApiKey),
            NewFileChange("db/Migrations/0005_x.py", 8, 2, PatchAddColumn),
            NewFileChange("db/schema.sql", 8, 2, PatchDrop),
            NewFileChange("app/config/settings.yaml", 5, 5, PatchPlain),
            NewFileChange("src/auth_util.py", 5, 5, PatchPlain),
            NewFileChange("src/big.py", 200, 101, NoPatch)>>
           \o Repeat(NewFileChange("src/f%.py", 40, 8, PatchPlain), 25)}

\* _categorize_diff_size with the threshold itself still counted as large.
CategorizeDiffSize_ThresholdLarge(total_changes) ==
    IF total_changes < 50 THEN "small"
    ELSE IF total_changes < 200 THEN "medium"
    ELSE IF total_changes <= LARGE_DIFF_THRESHOLD_LINES THEN "large"
    ELSE "very_large"

\* DiffFetcher._categorize_diff_size
CategorizeDiffSize(total_changes) ==
    IF total_changes < 50 THEN "small"
    ELSE IF total_changes < 200 THEN "medium"
    ELSE IF total_changes < LARGE_DIFF_THRESHOLD_LINES THEN "large"
    ELSE "very_large"

RECURSIVE SumField(_, _)
\* total += file_data[field] over the files
SumField(files, field) ==
    IF files = <<>> THEN 0 ELSE Head(files)[field] + SumField(Tail(files), field)

\* The PRDiff that DiffFetcher.fetch_pr_diff builds from the files list.
NewPRDiff(files_data) ==
    LET total_additions == SumField(files_data, "additions")
        total_deletions == SumField(files_data, "deletions")
        total_changes == total_additions + total_deletions
    IN [total_additions |-> total_additions,
        total_deletions |-> total_deletions,
        total_changes |-> total_changes,
        files_changed |-> Len(files_data),
        file_changes |-> files_data,
        size_category |-> CategorizeDiffSize(total_changes)]

\* RiskFinding(risk_type, level, affected_files); message and details are
\* not modelled.
NewRiskFinding(risk_type, level, affected_files) ==
    [risk_type |-> risk_type, level |-> level, affected_files |-> affected_files]

\* [fc.filename for fc in files]
Filenames(files) == [k \in 1..Len(files) |-> files[k].filename]

\* `if file_change.patch:`
PatchTruthy(patch) == patch # NoPatch /\ patch # ""

\* RiskDetector._detect_size_risks: the findings it appends
SizeFindings(pr_diff) ==
    LET IsLarge(fc) == fc.changes > 300
        large == SelectSeq(pr_diff.file_changes, IsLarge)
    IN (IF pr_diff.size_category = "very_large"
        THEN <<NewRiskFinding("large_pr", "high", <<>>)>> ELSE <<>>)
       \o (IF pr_diff.files_changed > 20
           THEN <<NewRiskFinding("many_files", "medium", <<>>)>> ELSE <<>>)
       \o [k \in 1..Len(large) |->
              NewRiskFinding("large_file_change", "medium", <<large[k].filename>>)]

\* settings.CRITICAL_FILE_PATTERNS whose regex (each '*' made '.*') is found
\* in the filename with re.IGNORECASE: between them they need one of these
\* texts in the lower-cased name.
IsCriticalFile(filepath) ==
    Substrings(Lower(filepath))
        \cap {"/migrations/", "/settings.py", "/config/", "/auth/", "dockerfile",
              "docker-compose.yml"} # {}

\* RiskDetector._detect_critical_file_risks
CriticalFileFindings(pr_diff) ==
    LET IsCritical(fc) == IsCriticalFile(fc.filename)
        critical_files == Filenames(SelectSeq(pr_diff.file_changes, IsCritical))
    IN IF critical_files # <<>>
       THEN <<NewRiskFinding("critical_files", "high", critical_files)>>
       ELSE <<>>

\* RiskDetector._detect_configuration_risks
ConfigurationFindings(pr_diff) ==
    LET IsConfig(fc) ==
            \/ ConfigExtension(Lower(fc.filename)) # "None"
            \/ Substrings(Lower(fc.filename))
                  \cap {"dockerfile", "docker-compose", ".dockerignore",
                        "nginx.conf", "package.json", "requirements.txt"} # {}
        config_files == Filenames(SelectSeq(pr_diff.file_changes, IsConfig))
    IN IF config_files # <<>>
       THEN <<NewRiskFinding("configuration_changes", "medium", config_files)>>
       ELSE <<>>

\* The keywords a file name is taken for a migration by.
MigrationKeywords == {"migration", "migrate", "schema", "alembic", "flyway"}

\* DB_MIGRATION_KEYWORDS
DB_MIGRATION_KEYWORDS ==
    {"DROP TABLE", "DROP COLUMN", "ALTER TABLE", "RENAME COLUMN",
     "CREATE INDEX", "DROP INDEX"}

\* `any(keyword in filename.lower() for keyword in [...])`
IsMigrationFile(fc) == Substrings(Lower(fc.filename)) \cap MigrationKeywords # {}

\* A migration file whose patch, upper-cased, holds a DB_MIGRATION_KEYWORDS
\* entry: it adds to risky_migrations.
IsRiskyMigration(fc) ==
    /\ IsMigrationFile(fc)
    /\ PatchTruthy(fc.patch)
    /\ Substrings(Upper(fc.patch)) \cap DB_MIGRATION_KEYWORDS # {}

\* The level of the database_migration finding with the escalation forgotten.
MigrationLevel_NeverHigh(risky_migrations) == "medium"

\* level = RiskLevel.HIGH if risky_migrations else RiskLevel.MEDIUM
MigrationLevel(risky_migrations) ==
    IF risky_migrations # <<>> THEN "high" ELSE "medium"

\* RiskDetector._detect_database_risks
DatabaseFindings(pr_diff) ==
    LET migration_files == Filenames(SelectSeq(pr_diff.file_changes, IsMigrationFile))
        risky_migrations == Filenames(SelectSeq(pr_diff.file_changes, IsRiskyMigration))
    IN IF migration_files # <<>>
       THEN <<NewRiskFinding("database_migration", MigrationLevel(risky_migrations),
                             migration_files)>>
       ELSE <<>>

\* SECURITY_PATTERNS
SECURITY_PATTERNS ==
    {"password", "secret", "api[_-]?key", "token", "auth", "credential", "\\.env"}

\* re.search(pattern, text, re.IGNORECASE) for some pattern
SecurityPatternFound(text) == Substrings(Lower(text)) \cap SECURITY_PATTERNS # {}

RECURSIVE SecurityFiles(_, _)
\* The loop of _detect_security_risks over the files not yet looked at:
\* a file is appended for its name, or else for its patch if its name is
\* not in the list yet.
SecurityFiles(files, security_files) ==
    IF files = <<>> THEN security_files
    ELSE LET fc == Head(files)
             by_name == IF SecurityPatternFound(Lower(fc.filename))
                        THEN Append(security_files, fc.filename)
                        ELSE security_files
             by_patch == IF /\ PatchTruthy(fc.patch)
                            /\ SecurityPatternFound(fc.patch)
                            /\ fc.filename \notin Range(by_name)
                         THEN Append(by_name, fc.filename)
                         ELSE by_name
         IN SecurityFiles(Tail(files), by_patch)

\* RiskDetector._detect_security_risks
SecurityFindings(pr_diff) ==
    LET security_files == SecurityFiles(pr_diff.file_changes, <<>>)
    IN IF security_files # <<>>
       THEN <<NewRiskFinding("security_sensitive", "high", security_files)>>
       ELSE <<>>

\* detect_risks with the security step run first.
DetectRisksFindings_SecurityFirst(pr_diff) ==
    SecurityFindings(pr_diff) \o SizeFindings(pr_diff)
        \o CriticalFileFindings(pr_diff) \o ConfigurationFindings(pr_diff)
        \o DatabaseFindings(pr_diff)

\* RiskDetector.detect_risks: self.findings after the five steps
DetectRisksFindings(pr_diff) ==
    SizeFindings(pr_diff) \o CriticalFileFindings(pr_diff)
        \o ConfigurationFindings(pr_diff) \o DatabaseFindings(pr_diff)
        \o SecurityFindings(pr_diff)

\* detect_risks(pr_diff): self.findings is set anew and returned.
DetectRisks ==
    /\ risk_ret.op = "none"
    /\ \E files_data \in FilesData :
          LET pr_diff == NewPRDiff(files_data)
          IN /\ findings' = DetectRisksFindings(pr_diff)
             /\ risk_ret' = [op |-> "detect_risks", pr_diff |-> pr_diff,
                             ret |-> findings']
    /\ UNCHANGED <<diffVars, graphVars, scoreVars, confVars, catVars, walkVars>>

\* RiskDetector.BREAKING_PATTERNS, in order.
BREAKING_PATTERNS ==
    <<"def\\s+\\w+\\([^)]*\\)\\s*->", "class\\s+\\w+\\([^)]*\\):",
      "function\\s+\\w+\\([^)]*\\)", "interface\\s+\\w+\\s*{",
      "type\\s+\\w+\\s*=", "public\\s+\\w+\\s+\\w+\\(">>

\* The patterns re.search finds in a line content of the model.
PatternsFound(content) ==
    CASE content = "def f(a) -> int:" -> {BREAKING_PATTERNS[1]}
      [] content = "class A(B):" -> {BREAKING_PATTERNS[2]}
      [] content = "class A(B): def f(a) -> int: pass" ->
            {BREAKING_PATTERNS[1], BREAKING_PATTERNS[2]}
      [] content = "export interface A { }" -> {BREAKING_PATTERNS[4]}
      [] OTHER -> {}

\* A parsed line and file as detect_breaking_changes reads them.
BreakingLine(change_type, content) ==
    [change_type |-> change_type, content |-> content]
BreakingFile(filename, language, ls) ==
    [filename |-> filename, language |-> language, hunks |-> <<[lines |-> ls]>>]

\* The file_diffs arguments of the model.
BreakingInputs ==
    {<<>>,
     <<BreakingFile("x.py", "python",
                    <<BreakingLine("removed", "def f(a) -> int:"),
                      BreakingLine("added", "def f(a, b) -> int:")>>)>>,
     <<BreakingFile("x.py", "python",
                    <<BreakingLine("removed", "x = 1"),
                      BreakingLine("added", "def f(a) -> int:")>>)>>,
     <<BreakingFile("notes", "None",
                    <<BreakingLine("removed", "def f(a) -> int:")>>)>>,
     <<BreakingFile("a.ts", "typescript",
                    <<BreakingLine("removed", "class A(B): def f(a) -> int: pass"),
                      BreakingLine("added", "export interface A { }"),
                      BreakingLine("removed", "x = 1")>>)>>,
     <<BreakingFile("x.py", "python",
                    <<BreakingLine("removed", "def f(a) -> int:")>>),
       BreakingFile("y.py", "python",
                    <<BreakingLine("context", "class A(B):"),
                      BreakingLine("removed", "class A(B):")>>)>>}

RECURSIVE PatternLoop_NoBreak(_, _, _)
\* The pattern loop without its break.
PatternLoop_NoBreak(filename, content, patterns) ==
    IF patterns = <<>> THEN <<>>
    ELSE (IF Head(patterns) \in PatternsFound(content)
          THEN <<NewRiskFinding("breaking_change", "high", <<filename>>)>>
          ELSE <<>>) \o PatternLoop_NoBreak(filename, content, Tail(patterns))

RECURSIVE PatternLoop(_, _, _)
\* for pattern in self.BREAKING_PATTERNS: the first pattern found in the
\* line appends one finding and ends the loop.
PatternLoop(filename, content, patterns) ==
    IF patterns = <<>> THEN <<>>
    ELSE IF Head(patterns) \in PatternsFound(content)
         THEN <<NewRiskFinding("breaking_change", "high", <<filename>>)>>
         ELSE PatternLoop(filename, content, Tail(patterns))

RECURSIVE BreakingOfLines(_, _)
\* The findings for the lines of one hunk of the file.
BreakingOfLines(filename, ls) ==
    IF ls = <<>> THEN <<>>
    ELSE (IF Head(ls).change_type = "removed"
          THEN PatternLoop(filename, Head(ls).content, BREAKING_PATTERNS)
          ELSE <<>>) \o BreakingOfLines(filename, Tail(ls))

RECURSIVE BreakingOfHunks(_, _)
BreakingOfHunks(filename, hunks) ==
    IF hunks = <<>> THEN <<>>
    ELSE BreakingOfLines(filename, Head(hunks).lines)
            \o BreakingOfHunks(filename, Tail(hunks))

RECURSIVE BreakingFindings(_)
\* breaking_findings of detect_breaking_changes(file_diffs); a file with no
\* language is skipped.
BreakingFindings(fds) ==
    IF fds = <<>> THEN <<>>
    ELSE (IF Head(fds).language \in {"None", ""} THEN <<>>
          ELSE BreakingOfHunks(Head(fds).filename, Head(fds).hunks))
         \o BreakingFindings(Tail(fds))

\* len([f for f in fs if f.risk_type == risk_type])
CountType(fs, risk_type) ==
    Cardinality({k \in 1..Len(fs) : fs[k].risk_type = risk_type})

\* detect_breaking_changes(file_diffs): self.findings.extend(breaking_findings)
DetectBreakingChanges ==
    /\ risk_ret.op = "none"
    /\ \E fds \in BreakingInputs :
          LET breaking_findings == BreakingFindings(fds)
          IN /\ findings' = findings \o breaking_findings
             /\ CountType(findings', "breaking_change") <= MaxBreaking
             /\ risk_ret' = [op |-> "detect_breaking_changes",
                             file_diffs |-> fds, ret |-> breaking_findings]
    /\ UNCHANGED <<diffVars, graphVars, scoreVars, confVars, catVars, walkVars>>

\* One detector used call after call.
NextDetector ==
    \/ DetectRisks
    \/ DetectBreakingChanges
    \/ CalculateOverallRiskScore
    \/ GetRecommendation
    \/ RiskReturn

(***************************************************************************)
(* DiffParser.categorize_files (app/analysis/diff_parser.py)               *)
(***************************************************************************)

\* Bound: the length of the file_diffs list given to categorize_files.
MaxCatFiles == 2

\* The filenames of the model.
CatFilenames ==
    {"tests/test_app.py", "tests/fixtures/data.json", "config/settings.yaml",
     "package.json", "Dockerfile", "README.md", "docs/README",
     "requirements.txt", "go.mod", "Pipfile", "db/migrations/0005_x.py",
     "db/migrate.sql", "src/app.py", "Makefile"}

\* The FileDiff objects of the model, as far as categorize_files reads
\* them: as parse_diff leaves them (language detected) and as constructed
\* (language None).
CatFileDiffs ==
    {[filename |-> n, language |-> l] :
        n \in CatFilenames, l \in {"None"}} \cup
    {[filename |-> n, language |-> DetectLanguage(n)] : n \in CatFilenames}

\* The markers categorize_files looks for with `x in filename` that occur
\* in a lower-cased filename.
FilenameContains(filename) ==
    CASE filename = "tests/test_app.py" -> {"test_", "tests/"}
      [] filename = "tests/fixtures/data.json" -> {"tests/"}
      [] filename = "package.json" -> {"package.json"}
      [] filename = "requirements.txt" -> {"requirements.txt"}
      [] filename = "go.mod" -> {"go.mod"}
      [] filename = "pipfile" -> {"pipfile"}
      [] filename = "db/migrations/0005_x.py" -> {"migration"}
      [] filename = "db/migrate.sql" -> {"migrate"}
      [] OTHER -> {}

\* The suffixes categorize_files looks for with filename.endswith(x) that a
\* lower-cased filename ends with.
FilenameEndsWith(filename) ==
    CASE filename \in {"tests/fixtures/data.json", "package.json"} -> {".json"}
      [] filename = "config/settings.yaml" -> {".yaml"}
      [] filename = "dockerfile" -> {"dockerfile"}
      [] filename = "readme.md" -> {".md"}
      [] filename = "docs/readme" -> {"readme"}
      [] filename = "requirements.txt" -> {".txt"}
      [] OTHER -> {}

TestMarkers == {"test_", "_test.", "tests/", "/test/", "spec/"}
ConfigSuffixes ==
    {".json", ".yaml", ".yml", ".toml", ".ini", ".conf", ".env", "dockerfile",
     "docker-compose.yml"}
DocSuffixes == {".md", ".txt", ".rst", "readme"}
DependencyMarkers ==
    {"requirements.txt", "package.json", "poetry.lock", "pipfile",
     "cargo.toml", "go.mod", "pom.xml"}
DatabaseMarkers == {"migration", "migrate"}

\* The if/elif chain with configuration tried before tests.
CategoryOf_ConfigurationFirst(file_diff) ==
    LET filename == Lower(file_diff.filename)
    IN IF FilenameEndsWith(filename) \cap ConfigSuffixes # {} THEN "configuration"
       ELSE IF FilenameContains(filename) \cap TestMarkers # {} THEN "tests"
       ELSE IF FilenameEndsWith(filename) \cap DocSuffixes # {} THEN "documentation"
       ELSE IF FilenameContains(filename) \cap DependencyMarkers # {}
            THEN "dependencies"
       ELSE IF FilenameContains(filename) \cap DatabaseMarkers # {} THEN "database"
       ELSE IF file_diff.language # "None" THEN "source_code"
       ELSE "other"

\* The if/elif chain of the loop body: the key the filename is appended to.
CategoryOf(file_diff) ==
    LET filename == Lower(file_diff.filename)
    IN IF FilenameContains(filename) \cap TestMarkers # {} THEN "tests"
       ELSE IF FilenameEndsWith(filename) \cap ConfigSuffixes # {} THEN "configuration"
       ELSE IF FilenameEndsWith(filename) \cap DocSuffixes # {} THEN "documentation"
       ELSE IF FilenameContains(filename) \cap DependencyMarkers # {}
            THEN "dependencies"
       ELSE IF FilenameContains(filename) \cap DatabaseMarkers # {} THEN "database"
       ELSE IF file_diff.language # "None" THEN "source_code"
       ELSE "other"

\* The keys of the categories dict.
CategoryKeys ==
    {"source_code", "tests", "configuration", "documentation", "dependencies",
     "database", "other"}

\* for file_diff in file_diffs: categories[...].append(file_diff.filename)
RECURSIVE CategorizeLoop(_, _)
CategorizeLoop(categories, fds) ==
    IF fds = <<>> THEN categories
    ELSE LET key == CategoryOf(Head(fds))
         IN CategorizeLoop(
              [categories EXCEPT ![key] = Append(@, Head(fds).filename)],
              Tail(fds))

\* categorize_files(file_diffs)
Categorize(fds) == CategorizeLoop([k \in CategoryKeys |-> <<>>], fds)

\* One call of categorize_files.
CategorizeFiles ==
    /\ cat_ret.op = "none"
    /\ \E fds \in SeqsUpTo(CatFileDiffs, MaxCatFiles) :
          cat_ret' = [op |-> "categorize_files", file_diffs |-> fds,
                      ret |-> Categorize(fds)]
    /\ UNCHANGED <<diffVars, graphVars, riskVars, scoreVars, confVars, walkVars>>

\* The caller drops the result.
CatReturn ==
    /\ cat_ret.op # "none"
    /\ cat_ret' = [op |-> "none"]
    /\ UNCHANGED <<diffVars, graphVars, riskVars, scoreVars, confVars, walkVars>>

InitCat == cat_ret = [op |-> "none"]

NextCategorize == CategorizeFiles \/ CatReturn

(***************************************************************************)
(* The traversals of DependencyGraph, statement by statement: the nested   *)
(* functions traverse and dfs with their call stack                        *)
(* (app/analysis/dependency_graph.py)                                      *)
(***************************************************************************)

\* Bound: the edges of the graphs on which the traversals are followed
\* statement by statement.
MaxWalkEdges == 3

\* path of detect_circular_dependencies: the files of the open calls
\* (appended on entry, popped on return).
WalkPath(stack) == [k \in 1..Len(stack) |-> stack[k].file]

\* `file in visited` answered with no, always.
Seen_Never(visited, file) == FALSE

\* `file in visited`
Seen(visited, file) == file \in visited

\* A query starts: the locals are initialised and the first call of
\* traverse or dfs is about to be made.
WalkBegin(op, roots, max_depth) ==
    [op |-> op, phase |-> "run", roots |-> roots, arg_max_depth |-> max_depth,
     remaining |-> roots, stack |-> <<>>, visited |-> {},
     visits |-> [n \in Nodes |-> 0], impact |-> <<>>, cycles |-> <<>>,
     max_depth |-> 0, ret |-> <<>>]

WalkStart ==
    /\ walk.op = "none"
    /\ \/ \E changed_files \in ChangedLists, max_depth \in 0..MaxDepthArg :
             walk' = WalkBegin("get_impact_radius", changed_files, max_depth)
       \/ \E start_file \in Nodes :
             walk' = WalkBegin("detect_circular_dependencies", <<start_file>>, 0)
       \/ \E filepath \in Nodes :
             walk' = WalkBegin("get_dependency_depth", <<filepath>>, 0)
    /\ UNCHANGED <<diffVars, graphVars, riskVars, scoreVars, confVars, catVars>>

\* The guard of traverse or dfs: whether the call (file, depth) made in
\* state w returns at once.
WalkCallReturns(w, file, depth) ==
    CASE w.op = "get_impact_radius" ->
           depth > w.arg_max_depth \/ Seen(w.visited, file)
      [] w.op = "detect_circular_dependencies" ->
           file \in Range(WalkPath(w.stack)) \/ Seen(w.visited, file)
      [] w.op = "get_dependency_depth" -> Seen(w.visited, file)

\* The body of the call up to its for loop: the file is marked visited, the
\* result is updated, and the loop is about to iterate over the
\* neighbours of the file.
WalkCallBody(w, file, depth) ==
    LET neighbours == IF w.op = "get_impact_radius"
                      THEN Get(reverse_graph, file) ELSE Get(import_graph, file)
    IN [w EXCEPT
          !.visited = @ \cup {file},
          !.visits = [@ EXCEPT ![file] = @ + 1],
          !.impact = IF w.op = "get_impact_radius"
                     THEN TraverseVisit([visited |-> w.visited,
                                         impact |-> w.impact], file, depth).impact
                     ELSE @,
          !.max_depth = IF w.op = "get_dependency_depth" /\ depth > @
                        THEN depth ELSE @,
          !.stack = Append(@, [file |-> file, depth |-> depth,
                               todo |-> neighbours])]

\* The call traverse(file, depth) or dfs(file[, depth]) made in state w, up
\* to its return at the guard (for detect_circular_dependencies after
\* recording the cycle when the file is on the path) or to its for loop.
WalkCall(w, file, depth) ==
    IF WalkCallReturns(w, file, depth)
    THEN [w EXCEPT
            !.cycles = IF /\ w.op = "detect_circular_dependencies"
                          /\ file \in Range(WalkPath(w.stack))
                       THEN Append(@, CycleFrom(WalkPath(w.stack), file))
                       ELSE @]
    ELSE WalkCallBody(w, file, depth)

\* The top level of the query makes its next call: traverse(changed_file,
\* 0) for the next changed file, dfs(start_file), dfs(filepath, 0).
WalkNextRoot ==
    /\ walk.stack = <<>> /\ walk.remaining # <<>>
    /\ walk' = WalkCall([walk EXCEPT !.remaining = Tail(@)],
                        Head(walk.remaining), 0)

\* One iteration of the for loop of the innermost open call: the next
\* neighbour, in whatever order the set yields it, is called with depth + 1.
WalkIterate ==
    /\ walk.stack # <<>>
    /\ LET top == walk.stack[Len(walk.stack)]
       IN \E d \in top.todo :
             walk' = WalkCall([walk EXCEPT !.stack[Len(walk.stack)].todo = @ \ {d}],
                              d, top.depth + 1)

\* The for loop of the innermost open call is over: the call returns.
WalkPop ==
    /\ walk.stack # <<>>
    /\ walk.stack[Len(walk.stack)].todo = {}
    /\ walk' = [walk EXCEPT !.stack = SubSeq(@, 1, Len(@) - 1)]

\* The top level has made all its calls: the query returns its result
\* (ret is the empty list until then, and the list of the result after).
WalkFinish ==
    /\ walk.stack = <<>> /\ walk.remaining = <<>>
    /\ walk' = [walk EXCEPT
                  !.phase = "done",
                  !.ret = CASE walk.op = "get_impact_radius" ->
                                 <<RemoveChanged(walk.impact, walk.roots)>>
                            [] walk.op = "detect_circular_dependencies" ->
                                 <<walk.cycles>>
                            [] walk.op = "get_dependency_depth" ->
                                 <<walk.max_depth>>]

\* One step of the running query.
WalkStep ==
    /\ walk.op # "none" /\ walk.phase = "run"
    /\ \/ WalkNextRoot
       \/ WalkIterate
       \/ WalkPop
       \/ WalkFinish
    /\ UNCHANGED <<diffVars, graphVars, riskVars, scoreVars, confVars, catVars>>

\* The caller is done with the result.
WalkReturn ==
    /\ walk.op # "none" /\ walk.phase = "done"
    /\ walk' = [op |-> "none"]
    /\ UNCHANGED <<diffVars, graphVars, riskVars, scoreVars, confVars, catVars>>

\* The graph is built between the queries, never during one.
WalkAnalyze ==
    /\ walk.op = "none"
    /\ Analyze
    /\ Cardinality(Edges(import_graph')) <= MaxWalkEdges

InitWalk == walk = [op |-> "none"]

NextWalk == WalkAnalyze \/ WalkStart \/ WalkStep \/ WalkReturn

InitDiff ==
    /\ dpc = "idle"
    /\ lines = <<>>
    /\ fileHeap = <<>>
    /\ hunkHeap = <<>>
    /\ file_diffs = <<>>
    /\ current_file = NoRef
    /\ current_hunk = NoRef

Init == InitDiff /\ InitGraph /\ InitRisk /\ InitScore /\ InitConf /\ InitCat /\ InitWalk

NextDiff ==
    \/ ParseStart
    \/ ParseEmpty
    \/ ParseLine
    \/ ParseFinish
    \/ ParseReturn

SpecDiff == Init /\ [][NextDiff]_vars

SpecGraph == Init /\ [][NextGraph]_vars

SpecRisk == Init /\ [][NextRisk]_vars

SpecDetector == Init /\ [][NextDetector]_vars

SpecScore == Init /\ [][NextScore]_vars

SpecConf == Init /\ [][NextConf]_vars

SpecCategorize == Init /\ [][NextCategorize]_vars

\* The statements of a query are executed one after the other until it
\* returns: a query that can take a step takes it.
SpecWalk == Init /\ [][NextWalk]_vars /\ WF_vars(WalkStep)

(***************************************************************************)
(* Claims about DiffParser.parse_diff (checked under SpecDiff)             *)
(***************************************************************************)

\* The number of LineChange entries of the given type counted over every
\* element of the hunk list of FileDiff f (an element listed twice counts twice).
HunkLinesOfType(f, type) ==
    LET RECURSIVE SumOver(_)
        SumOver(hs) ==
            IF hs = <<>> THEN 0
            ELSE CountTypes(hunkHeap[Head(hs)].lines, {type}) + SumOver(Tail(hs))
    IN SumOver(fileHeap[f].hunks)

\* C1: parse_diff never raises, whatever the input text: a hunk header or
\* content lines before any `diff --git` header, or a malformed header, give
\* a partial or empty list, not an exception.
C1_ParseNeverRaises == dpc # "raised"

\* C2: in the list parse_diff returns, every FileDiff's additions and
\* deletions equal the numbers of ADDED and REMOVED LineChange entries
\* counted over the hunks of its hunk list (and so the sums over the list agree).
C2_CountsEqualHunkLines ==
    dpc = "done" =>
        \A k \in 1..Len(file_diffs) :
            /\ fileHeap[file_diffs[k]].additions = HunkLinesOfType(file_diffs[k], "added")
            /\ fileHeap[file_diffs[k]].deletions = HunkLinesOfType(file_diffs[k], "removed")

(***************************************************************************)
(* Claims about DependencyGraph (checked under SpecGraph)                  *)
(***************************************************************************)

RECURSIVE ReachedWithin(_, _)
\* The files reached from the set `from` by at most k reverse-import steps.
ReachedWithin(from, k) ==
    IF k = 0 THEN from
    ELSE LET prev == ReachedWithin(from, k - 1)
         IN prev \cup UNION {Get(reverse_graph, f) : f \in prev}

\* The length of the shortest reverse-import path from a file of `from` to f
\* (f is reachable: a path has at most Cardinality(Nodes) - 1 steps).
ReverseDistance(from, f) ==
    CHOOSE k \in 0..Cardinality(Nodes) :
        /\ f \in ReachedWithin(from, k)
        /\ \A j \in 0..(k - 1) : f \notin ReachedWithin(from, j)

\* C6: the map get_impact_radius returns has no changed file as a key, and
\* every depth in it is at least 1 and at most max_depth.
C6_ImpactExcludesChangedAndBounded ==
    gq.op = "get_impact_radius" =>
        \A f \in DOMAIN gq.ret :
            /\ f \notin Range(gq.changed_files)
            /\ 1 <= gq.ret[f]
            /\ gq.ret[f] <= gq.max_depth

\* C6 witness: a call with two changed files, one importing the other, that
\* returns a file at depth max_depth = 2.
C6_Witness ==
    /\ gq.op = "get_impact_radius"
    /\ gq.max_depth = 2
    /\ Len(gq.changed_files) = 2
    /\ gq.changed_files[2] \in Get(reverse_graph, gq.changed_files[1])
    /\ \E f \in DOMAIN gq.ret : gq.ret[f] = 2

\* C7: every depth in the map get_impact_radius returns is the length of the
\* shortest reverse-import path from a changed file to that file.
C7_ImpactDepthIsShortest ==
    gq.op = "get_impact_radius" =>
        \A f \in DOMAIN gq.ret :
            gq.ret[f] = ReverseDistance(Range(gq.changed_files), f)

\* C8: the keys of the map get_impact_radius returns are exactly the files,
\* other than the changed ones, that a reverse-import path of at most
\* max_depth steps reaches from a changed file.
C8_ImpactKeysAreAllDependents ==
    gq.op = "get_impact_radius" =>
        DOMAIN gq.ret =
            ReachedWithin(Range(gq.changed_files), gq.max_depth)
                \ Range(gq.changed_files)

\* The import graph is the ring x -> y -> z -> x and nothing else.
IsRing(x, y, z) ==
    /\ {x, y, z} = Nodes
    /\ Edges(import_graph) = {<<x, y>>, <<y, z>>, <<z, x>>}

\* C9: every cycle detect_circular_dependencies returns starts and ends with
\* the same file, has pairwise distinct files before the last, and follows
\* edges of the forward import graph; on the ring A -> B -> C -> A the call
\* from A returns exactly the one cycle [A, B, C, A].
C9_CyclesAreWellFormed ==
    gq.op = "detect_circular_dependencies" =>
        /\ \A c \in 1..Len(gq.ret) :
              LET cycle == gq.ret[c]
              IN /\ Len(cycle) >= 2
                 /\ cycle[1] = cycle[Len(cycle)]
                 /\ \A i, j \in 1..(Len(cycle) - 1) : i # j => cycle[i] # cycle[j]
                 /\ \A i \in 1..(Len(cycle) - 1) :
                       cycle[i + 1] \in Get(import_graph, cycle[i])
        /\ \A x, y, z \in Nodes :
              IsRing(x, y, z) /\ gq.start_file = x => gq.ret = <<<<x, y, z, x>>>>

\* C9 witness: the ring a.py -> b.js -> c -> a.py, searched from a.py.
C9_Witness ==
    /\ gq.op = "detect_circular_dependencies"
    /\ IsRing("a.py", "b.js", "c")
    /\ gq.start_file = "a.py"
    /\ gq.ret = <<<<"a.py", "b.js", "c", "a.py">>>>

\* A returned cycle that does not start at the file the search started from.
C9_WitnessInnerCycle ==
    /\ gq.op = "detect_circular_dependencies"
    /\ \E c \in 1..Len(gq.ret) : gq.ret[c][1] # gq.start_file

(***************************************************************************)
(* Claims about RiskDetector (checked under SpecRisk)                      *)
(***************************************************************************)

\* The number of findings of the given level.
CountLevel(level) ==
    Cardinality({k \in 1..Len(findings) : findings[k].level = level})

\* Ten times the sum of the level weights LOW .1, MEDIUM .3, HIGH .6,
\* CRITICAL 1.0 over the findings.
WeightSum10 ==
    CountLevel("low") + 3 * CountLevel("medium") + 6 * CountLevel("high")
        + 10 * CountLevel("critical")

\* C10: calculate_overall_risk_score returns 0.0 for no findings and
\* otherwise min(1, weight sum / (0.5 x number of findings)) rounded to two
\* decimals; the result is within [0, 1], and 1.0 for a single CRITICAL finding.
C10_OverallRiskScore ==
    risk_ret.op = "calculate_overall_risk_score" =>
        LET n == Len(findings)
            r == risk_ret.ret
        IN /\ n = 0 => r = 0
           /\ n > 0 /\ WeightSum10 >= 5 * n => r = 100
           /\ n > 0 /\ WeightSum10 < 5 * n =>
                 2 * Abs(5 * n * r - 100 * WeightSum10) <= 5 * n
           /\ 0 <= r /\ r <= 100
           /\ (n = 1 /\ findings[1].level = "critical") => r = 100

\* C10 witness: a score strictly between 0 and 1 that needed rounding.
C10_Witness ==
    /\ risk_ret.op = "calculate_overall_risk_score"
    /\ Len(findings) = 3
    /\ WeightSum10 = 5
    /\ risk_ret.ret = 33

\* The score of a single CRITICAL finding has been computed.
C10_WitnessCritical ==
    /\ risk_ret.op = "calculate_overall_risk_score"
    /\ findings = <<[level |-> "critical"]>>
    /\ risk_ret.ret = 100

(***************************************************************************)
(* Claims about calculate_risk_score (checked under SpecScore)             *)
(***************************************************************************)

\* C5: RiskScore.total is within [0, 100] whether the risk signals are
\* absent, empty, or apply any of the five multipliers, all five included.
C5_TotalWithinRange ==
    score_ret.op = "calculate_risk_score" =>
        /\ FracLe(FracOf(0), score_ret.ret.total)
        /\ FracLe(score_ret.ret.total, FracOf(100))

\* C5 witness: all five multipliers applied to a total whose severity
\* component is at its cap of 100; the product is cut to 100.
C5_Witness ==
    /\ score_ret.op = "calculate_risk_score"
    /\ score_ret.risk_signals.truthy = SignalKeys
    /\ score_ret.ret.severity_score = FracOf(100)
    /\ score_ret.ret.total = FracOf(100)

\* A total computed with no risk signals (None) that is above 90.
C5_WitnessNoSignals ==
    /\ score_ret.op = "calculate_risk_score"
    /\ ~score_ret.risk_signals.present
    /\ FracLt(FracOf(80), score_ret.ret.total)

(***************************************************************************)
(* Claims about ConfidenceEvaluator.evaluate (checked under SpecConf)      *)
(***************************************************************************)

\* C3: evaluate never propagates an exception, whatever the context (None
\* included), and when the extraction of the factors fails its result is
\* the fallback with score 0.65.
C3_EvaluateNeverRaises ==
    conf_ret.op = "evaluate" =>
        /\ conf_ret.raised = "none"
        /\ ExtractFactorsRaises(conf_ret.context) =>
               conf_ret.ret.overall_confidence = Frac(65, 100)

\* C4: the confidence score that evaluate returns is within [0, 1], also
\* when a tool reports more analysed files than there are changed files.
C4_ConfidenceWithinUnit ==
    (conf_ret.op = "evaluate" /\ conf_ret.raised = "none") =>
        /\ FracLe(FracOf(0), conf_ret.ret.overall_confidence)
        /\ FracLe(conf_ret.ret.overall_confidence, FracOf(1))

(***************************************************************************)
(* Claims about get_recommendation (checked under SpecRisk)                *)
(***************************************************************************)

\* C11: get_recommendation returns REQUEST_CHANGES if there is a CRITICAL
\* finding or at least 3 HIGH findings; otherwise COMMENT if the overall
\* score is above 0.5 or there is a HIGH finding; otherwise APPROVE.
C11_Recommendation ==
    risk_ret.op = "get_recommendation" =>
        LET request == CountLevel("critical") > 0 \/ CountLevel("high") >= 3
            comment == OverallRiskScore(findings) > 50 \/ CountLevel("high") > 0
        IN risk_ret.ret = IF request THEN "REQUEST_CHANGES"
                          ELSE IF comment THEN "COMMENT"
                          ELSE "APPROVE"

\* C11 witness: one CRITICAL finding among two LOW ones, no HIGH finding,
\* and REQUEST_CHANGES returned.
C11_Witness ==
    /\ risk_ret.op = "get_recommendation"
    /\ CountLevel("critical") = 1
    /\ CountLevel("low") = 2
    /\ CountLevel("high") = 0
    /\ risk_ret.ret = "REQUEST_CHANGES"

(***************************************************************************)
(* Claims about detect_risks (checked under SpecDetector)                  *)
(***************************************************************************)

\* The positions of the findings of a type in fs.
PositionsOf(fs, risk_type) == {k \in 1..Len(fs) : fs[k].risk_type = risk_type}

\* The files of the PR whose lower-cased name holds a migration keyword.
MigrationNamed(pr_diff) ==
    {k \in 1..Len(pr_diff.file_changes) :
        Substrings(Lower(pr_diff.file_changes[k].filename))
            \cap {"migration", "migrate", "schema", "alembic", "flyway"} # {}}

\* The patch of file k is present and, upper-cased, holds a destructive keyword.
Destructive(pr_diff, k) ==
    LET patch == pr_diff.file_changes[k].patch
    IN /\ patch \notin {NoPatch, ""}
       /\ Substrings(Upper(patch))
             \cap {"DROP TABLE", "DROP COLUMN", "ALTER TABLE", "RENAME COLUMN",
                   "CREATE INDEX", "DROP INDEX"} # {}

\* C12: detect_risks emits exactly one database_migration finding when some
\* file name holds a migration keyword and none otherwise; its level is HIGH
\* iff the patch of some migration-named file holds a destructive SQL
\* keyword, MEDIUM otherwise.
C12_DatabaseMigrationFinding ==
    risk_ret.op = "detect_risks" =>
        LET pr_diff == risk_ret.pr_diff
            pos == PositionsOf(risk_ret.ret, "database_migration")
        IN /\ Cardinality(pos) = IF MigrationNamed(pr_diff) # {} THEN 1 ELSE 0
           /\ \A k \in pos :
                 risk_ret.ret[k].level =
                    IF \E m \in MigrationNamed(pr_diff) : Destructive(pr_diff, m)
                    THEN "high" ELSE "medium"

\* C12 witness: two migration-named files, the first with a harmless patch
\* and the second with DROP TABLE, and a HIGH database_migration finding.
C12_Witness ==
    /\ risk_ret.op = "detect_risks"
    /\ Cardinality(MigrationNamed(risk_ret.pr_diff)) = 2
    /\ \E k \in 1..Len(risk_ret.ret) :
          /\ risk_ret.ret[k].risk_type = "database_migration"
          /\ risk_ret.ret[k].level = "high"

\* A destructive patch in a file that is not migration-named, next to a
\* migration file with a harmless patch: the finding is MEDIUM.
C12_WitnessMedium ==
    /\ risk_ret.op = "detect_risks"
    /\ \E k \in 1..Len(risk_ret.pr_diff.file_changes) :
          k \notin MigrationNamed(risk_ret.pr_diff) /\ Destructive(risk_ret.pr_diff, k)
    /\ \E k \in 1..Len(risk_ret.ret) :
          /\ risk_ret.ret[k].risk_type = "database_migration"
          /\ risk_ret.ret[k].level = "medium"

\* C13: a PR whose total changes reach the large-diff threshold is
\* very_large; detect_risks emits one HIGH large_pr finding iff the size
\* category is very_large, one MEDIUM many_files finding iff more than 20
\* files changed, and one MEDIUM large_file_change finding per file with
\* more than 300 changed lines.
C13_SizeFindings ==
    risk_ret.op = "detect_risks" =>
        LET pr_diff == risk_ret.pr_diff
            ret == risk_ret.ret
            big == {k \in 1..Len(pr_diff.file_changes) :
                       pr_diff.file_changes[k].changes > 300}
        IN /\ pr_diff.total_changes >= LARGE_DIFF_THRESHOLD_LINES =>
                 pr_diff.size_category = "very_large"
           /\ Cardinality(PositionsOf(ret, "large_pr")) =
                 IF pr_diff.size_category = "very_large" THEN 1 ELSE 0
           /\ Cardinality(PositionsOf(ret, "many_files")) =
                 IF pr_diff.files_changed > 20 THEN 1 ELSE 0
           /\ Cardinality(PositionsOf(ret, "large_file_change")) = Cardinality(big)
           /\ \A k \in PositionsOf(ret, "large_pr") : ret[k].level = "high"
           /\ \A k \in PositionsOf(ret, "many_files") \cup
                       PositionsOf(ret, "large_file_change") :
                 ret[k].level = "medium"

\* C13 witness: 1200 changed lines across 25 files give a HIGH large_pr and
\* a MEDIUM many_files finding.
C13_Witness ==
    /\ risk_ret.op = "detect_risks"
    /\ risk_ret.pr_diff.total_changes = 1200
    /\ risk_ret.pr_diff.files_changed = 25
    /\ risk_ret.pr_diff.size_category = "very_large"
    /\ \E i, j \in 1..Len(risk_ret.ret) :
          /\ risk_ret.ret[i].risk_type = "large_pr" /\ risk_ret.ret[i].level = "high"
          /\ risk_ret.ret[j].risk_type = "many_files"
          /\ risk_ret.ret[j].level = "medium"

\* The place of a risk type in the order of the detection steps.
CategoryRank(risk_type) ==
    CASE risk_type \in {"large_pr", "many_files", "large_file_change"} -> 1
      [] risk_type = "critical_files" -> 2
      [] risk_type = "configuration_changes" -> 3
      [] risk_type = "database_migration" -> 4
      [] risk_type = "security_sensitive" -> 5
      [] OTHER -> 0

\* C14: in the list detect_risks returns, size findings precede the
\* critical_files finding, which precedes configuration_changes, then
\* database_migration, then security_sensitive.
C14_FindingsInCategoryOrder ==
    risk_ret.op = "detect_risks" =>
        \A i, j \in 1..Len(risk_ret.ret) :
            i < j => /\ CategoryRank(risk_ret.ret[i].risk_type) >= 1
                     /\ CategoryRank(risk_ret.ret[i].risk_type)
                           <= CategoryRank(risk_ret.ret[j].risk_type)

\* C14 witness: a returned list with a finding of each of the five categories.
C14_Witness ==
    /\ risk_ret.op = "detect_risks"
    /\ \A r \in 1..5 :
          \E k \in 1..Len(risk_ret.ret) : CategoryRank(risk_ret.ret[k].risk_type) = r

\* C15: RiskDetector holds no state between calls: after a call the
\* findings, score and recommendation are those a fresh instance gives for
\* that call's input alone.
C15_DetectorIsStateless ==
    LET fresh == IF risk_ret.op = "detect_risks"
                 THEN DetectRisksFindings(risk_ret.pr_diff)
                 ELSE BreakingFindings(risk_ret.file_diffs)
    IN risk_ret.op \in {"detect_risks", "detect_breaking_changes"} =>
          /\ findings = fresh
          /\ OverallRiskScore(findings) = OverallRiskScore(fresh)
          /\ Recommendation(findings) = Recommendation(fresh)

(***************************************************************************)
(* Further claims about DependencyGraph (checked under SpecGraph)          *)
(***************************************************************************)

\* C16: for a fixed graph and fixed arguments get_impact_radius,
\* get_dependency_depth and detect_circular_dependencies return the same
\* result whatever the iteration order of the neighbour sets.
C16_QueriesAreDeterministic ==
    /\ gq.op = "get_impact_radius" =>
          Cardinality(ImpactRadius(gq.changed_files, gq.max_depth)) = 1
    /\ gq.op = "get_dependency_depth" =>
          Cardinality(DependencyDepth(gq.filepath)) = 1
    /\ gq.op = "detect_circular_dependencies" =>
          Cardinality(CircularDependencies(gq.start_file)) = 1

\* get_dependency_depth alone has one possible result.
C16_DepthIsDeterministic ==
    gq.op = "get_dependency_depth" => Cardinality(DependencyDepth(gq.filepath)) = 1

\* detect_circular_dependencies alone has one possible result.
C16_CyclesAreDeterministic ==
    gq.op = "detect_circular_dependencies" =>
        Cardinality(CircularDependencies(gq.start_file)) = 1
\* C17: the forward and reverse maps only accumulate: no call of
\* analyze_file_dependencies (or any other step) removes an edge from
\* either map, a new analysis of the same file included.
C17_MapsOnlyAccumulate ==
    [][/\ \A f \in DOMAIN import_graph :
             /\ f \in DOMAIN import_graph'
             /\ import_graph[f] \subseteq import_graph'[f]
       /\ \A m \in DOMAIN reverse_graph :
             /\ m \in DOMAIN reverse_graph'
             /\ reverse_graph[m] \subseteq reverse_graph'[m]]_vars

\* C17 witness: a file analysed again with another content: an edge that
\* its latest analysis did not extract is still in both maps.
C17_Witness ==
    \E f \in DOMAIN dependencies :
        \E m \in Get(import_graph, f) :
            /\ m \notin Range(dependencies[f].imports_from)
            /\ f \in Get(reverse_graph, m)

(***************************************************************************)
(* Further claims about ConfidenceEvaluator (checked under SpecConf)       *)
(***************************************************************************)

\* C18: the confidence score never exceeds 0.75 when the PR is very_large
\* (1000 changed lines or more) and never exceeds 0.85 when it is large
\* (500 to 999 changed lines).
C18_SizeCeiling ==
    (conf_ret.op = "evaluate" /\ conf_ret.raised = "none") =>
        LET lines_changed == conf_ret.context.diff_info.total_changes
            score == conf_ret.ret.overall_confidence
        IN /\ lines_changed >= 1000 => FracLe(score, Frac(75, 100))
           /\ (lines_changed >= 500 /\ lines_changed < 1000) =>
                 FracLe(score, Frac(85, 100))

\* The ceilings of C18 for the contexts in which no tool reports more
\* analysed files than there are changed files.
C18_SizeCeilingCoverageWithinFiles ==
    (/\ conf_ret.op = "evaluate" /\ conf_ret.raised = "none"
     /\ \A tool \in {"linting", "security", "complexity"} :
           conf_ret.context.static_analysis[tool]
              <= conf_ret.context.diff_info.files.test
                    + conf_ret.context.diff_info.files.other)
    => C18_SizeCeiling

\* The 0.75 ceiling of the very_large bucket alone.
C18_VeryLargeCeiling ==
    (conf_ret.op = "evaluate" /\ conf_ret.raised = "none"
     /\ conf_ret.context.diff_info.total_changes >= 1000)
    => FracLe(conf_ret.ret.overall_confidence, Frac(75, 100))

(***************************************************************************)
(* Further claims about parse_diff (checked under SpecDiff)                *)
(***************************************************************************)

\* C19: a line starting with '@@' that fails the hunk-header pattern
\* produces no hunk: no file's hunk sequence gains an element because of
\* that line, no hunk object is made, and the open hunk stays the one the
\* following content lines go to.
C19_MalformedHunkHeaderAddsNoHunk ==
    [][(/\ dpc = "loop" /\ dpc' = "loop"
        /\ Len(lines') = Len(lines) + 1
        /\ ~HUNK_HEADER_PATTERN(lines'[Len(lines')])
        /\ StartsWithAtAt(lines'[Len(lines')]))
       => /\ hunkHeap' = hunkHeap
          /\ current_hunk' = current_hunk
          /\ Len(fileHeap') = Len(fileHeap)
          /\ \A f \in 1..Len(fileHeap) : fileHeap'[f].hunks = fileHeap[f].hunks]_vars

\* The number of lines of ls before position k whose type is in types.
TypesBefore(ls, k, types) ==
    Cardinality({j \in 1..(k - 1) : ls[j].change_type \in types})

\* C20: in every hunk an ADDED line has new_line_number = new_start + the
\* number of ADDED or CONTEXT lines before it and no old_line_number, a
\* REMOVED line has old_line_number = old_start + the number of REMOVED or
\* CONTEXT lines before it and no new_line_number, a CONTEXT line has
\* neither; so the numbers of the ADDED lines, and of the REMOVED lines,
\* strictly increase.
C20_LineNumbers ==
    \A h \in 1..Len(hunkHeap) :
        LET hunk == hunkHeap[h]
            ls == hunk.lines
        IN /\ \A k \in 1..Len(ls) :
                 /\ ls[k].change_type = "added" =>
                       /\ ls[k].new_line_number =
                             hunk.new_start + TypesBefore(ls, k, {"added", "context"})
                       /\ ls[k].old_line_number = NoLine
                 /\ ls[k].change_type = "removed" =>
                       /\ ls[k].old_line_number =
                             hunk.old_start + TypesBefore(ls, k, {"removed", "context"})
                       /\ ls[k].new_line_number = NoLine
                 /\ ls[k].change_type = "context" =>
                       /\ ls[k].old_line_number = NoLine
                       /\ ls[k].new_line_number = NoLine
           /\ \A i, j \in 1..Len(ls) :
                 i < j =>
                    /\ (ls[i].change_type = "added" /\ ls[j].change_type = "added")
                          => ls[i].new_line_number < ls[j].new_line_number
                    /\ (ls[i].change_type = "removed" /\ ls[j].change_type = "removed")
                          => ls[i].old_line_number < ls[j].old_line_number

\* C20 witness: a parsed hunk whose lines are a REMOVED line and then an
\* ADDED line: the ADDED line carries new_start itself, the REMOVED line
\* before it not being counted.
C20_Witness ==
    /\ dpc = "done"
    /\ \E f \in Range(file_diffs) :
          \E h \in Range(fileHeap[f].hunks) :
             /\ Len(hunkHeap[h].lines) = 2
             /\ hunkHeap[h].lines[1].change_type = "removed"
             /\ hunkHeap[h].lines[1].old_line_number = hunkHeap[h].old_start
             /\ hunkHeap[h].lines[2].change_type = "added"
             /\ hunkHeap[h].lines[2].new_line_number = hunkHeap[h].new_start

(***************************************************************************)
(* Claims about DiffParser.categorize_files (checked under SpecCategorize) *)
(***************************************************************************)

\* The number of times filename x occurs in sequence q.
Occurrences(q, x) == Cardinality({i \in 1..Len(q) : q[i] = x})

\* The categories in the order their predicates are tried.
CategoryOrder ==
    <<"tests", "configuration", "documentation", "dependencies", "database",
      "source_code", "other">>

\* Whether a file satisfies the predicate of the category at position k.
Satisfies(file_diff, k) ==
    LET filename == Lower(file_diff.filename)
    IN CASE k = 1 -> FilenameContains(filename) \cap TestMarkers # {}
         [] k = 2 -> FilenameEndsWith(filename) \cap ConfigSuffixes # {}
         [] k = 3 -> FilenameEndsWith(filename) \cap DocSuffixes # {}
         [] k = 4 -> FilenameContains(filename) \cap DependencyMarkers # {}
         [] k = 5 -> FilenameContains(filename) \cap DatabaseMarkers # {}
         [] k = 6 -> file_diff.language # "None"
         [] OTHER -> TRUE

\* The position of the first predicate a file satisfies.
FirstSatisfied(file_diff) ==
    CHOOSE k \in 1..7 :
        /\ Satisfies(file_diff, k)
        /\ \A j \in 1..(k - 1) : ~Satisfies(file_diff, j)

\* C21: categorize_files partitions its input: the result has the seven
\* categories, every input file's filename is in the category of the first
\* predicate it satisfies, in input order, and the categories together
\* hold as many filenames as there are input files.
C21_CategorizePartitions ==
    cat_ret.op = "categorize_files" =>
        LET fds == cat_ret.file_diffs
            ret == cat_ret.ret
        IN /\ DOMAIN ret = Range(CategoryOrder)
           /\ \A k \in 1..7 :
                 ret[CategoryOrder[k]] =
                    SelectSeq([i \in 1..Len(fds) |->
                                  IF FirstSatisfied(fds[i]) = k
                                  THEN fds[i].filename ELSE "<skip>"],
                              LAMBDA n : n # "<skip>")
           /\ SumSeq([k \in 1..7 |-> Len(ret[CategoryOrder[k]])]) = Len(fds)

\* C21 witness: a call with a file that satisfies two predicates (a JSON
\* fixture under tests/) and a source file: the first goes to tests only.
C21_Witness ==
    /\ cat_ret.op = "categorize_files"
    /\ Len(cat_ret.file_diffs) = 2
    /\ cat_ret.file_diffs[1].filename = "tests/fixtures/data.json"
    /\ cat_ret.file_diffs[2] = [filename |-> "src/app.py", language |-> "python"]
    /\ cat_ret.ret["tests"] = <<"tests/fixtures/data.json">>
    /\ cat_ret.ret["configuration"] = <<>>
    /\ cat_ret.ret["source_code"] = <<"src/app.py">>

(***************************************************************************)
(* Further claims about RiskDetector (checked under SpecDetector)          *)
(***************************************************************************)

\* The lines of the given file diffs, as <<file, hunk, line>> positions,
\* that satisfy Test(file_diff, line).
LinePositions(fds, Test(_, _)) ==
    {p \in (1..Len(fds)) \X (1..2) \X (1..4) :
        /\ p[2] <= Len(fds[p[1]].hunks)
        /\ p[3] <= Len(fds[p[1]].hunks[p[2]].lines)
        /\ Test(fds[p[1]], fds[p[1]].hunks[p[2]].lines[p[3]])}

\* C22: detect_breaking_changes returns one finding for each REMOVED line
\* in which a breaking pattern is found (of a file with a language) and
\* no other: none for an ADDED or CONTEXT line, no second one for a line
\* that matches two patterns.  Every finding is HIGH and a
\* "breaking_change", and there are at most as many findings as REMOVED
\* lines.
C22_BreakingOnlyRemovedLines ==
    risk_ret.op = "detect_breaking_changes" =>
        LET fds == risk_ret.file_diffs
            ret == risk_ret.ret
            Removed(fd, l) == l.change_type = "removed"
            Hit(fd, l) == /\ l.change_type = "removed"
                          /\ fd.language \notin {"None", ""}
                          /\ PatternsFound(l.content) # {}
        IN /\ \A k \in 1..Len(ret) :
                 /\ ret[k].level = "high"
                 /\ ret[k].risk_type = "breaking_change"
           /\ Len(ret) = Cardinality(LinePositions(fds, Hit))
           /\ Len(ret) <= Cardinality(LinePositions(fds, Removed))
           /\ \A f \in 1..Len(fds) :
                 Cardinality({k \in 1..Len(ret) :
                                 ret[k].affected_files = <<fds[f].filename>>})
                    <= Cardinality({p \in LinePositions(fds, Removed) :
                                       fds[p[1]].filename = fds[f].filename})

\* C22 witness: a call on a file whose first REMOVED line matches two
\* patterns, whose ADDED line matches one and whose second REMOVED line
\* matches none: one finding.
C22_Witness ==
    /\ risk_ret.op = "detect_breaking_changes"
    /\ Len(risk_ret.file_diffs) = 1
    /\ risk_ret.file_diffs[1].filename = "a.ts"
    /\ Cardinality(PatternsFound(risk_ret.file_diffs[1].hunks[1].lines[1].content)) = 2
    /\ Len(risk_ret.ret) = 1

(***************************************************************************)
(* Further claims about DependencyGraph (checked under SpecGraph)          *)
(***************************************************************************)

\* The simple forward import chains that start at file: sequences of
\* distinct nodes, each importing the next.
SimpleChains(file) ==
    {p \in SeqsUpTo(Nodes, Cardinality(Nodes)) :
        /\ Len(p) >= 1
        /\ p[1] = file
        /\ \A i, j \in 1..Len(p) : i # j => p[i] # p[j]
        /\ \A i \in 1..(Len(p) - 1) : p[i + 1] \in Get(import_graph, p[i])}

\* The largest and smallest member of a non-empty set of numbers.
Largest(S) == CHOOSE x \in S : \A y \in S : y <= x
Smallest(S) == CHOOSE x \in S : \A y \in S : x <= y

\* The length, in edges, of the longest simple chain from file.
LongestChain(file) == Largest({Len(p) - 1 : p \in SimpleChains(file)})

\* The nodes forward-reachable from file, and the shortest distance to one.
ForwardReachable(file) == {p[Len(p)] : p \in SimpleChains(file)}
ForwardDistance(file, n) ==
    Smallest({Len(p) - 1 : p \in {q \in SimpleChains(file) : q[Len(q)] = n}})

\* The subgraph reachable from file is a tree (a single chain included):
\* it has one edge less than it has nodes.
ReachableIsTree(file) ==
    LET R == ForwardReachable(file)
    IN Cardinality({e \in Edges(import_graph) : e[1] \in R})
          = Cardinality(R) - 1

C23_WitnessChain ==
    /\ gq.op = "get_dependency_depth"
    /\ ReachableIsTree(gq.filepath)
    /\ LongestChain(gq.filepath) = 2
    /\ gq.ret = 2

\* The names of the query operations of DependencyGraph.
QueryOps ==
    {"get_impact_radius", "get_coupled_modules", "detect_circular_dependencies",
     "get_dependency_depth", "get_external_dependencies", "summarize_graph"}

\* C24: a query leaves the forward map, the reverse map (their key sets
\* included) and the per-file dependency records as they were, also when
\* the file asked about was never analysed.
C24_QueriesChangeNothing ==
    [][(gq.op = "none" /\ gq'.op \in QueryOps)
          => /\ import_graph' = import_graph
             /\ reverse_graph' = reverse_graph
             /\ DOMAIN import_graph' = DOMAIN import_graph
             /\ DOMAIN reverse_graph' = DOMAIN reverse_graph
             /\ dependencies' = dependencies]_vars

\* C24 witness: a query about a file that is a key of no map, made on a
\* graph that holds other files.
C24_Witness ==
    /\ gq.op \in {"get_coupled_modules", "get_dependency_depth",
                  "detect_circular_dependencies", "get_external_dependencies"}
    /\ LET file == IF gq.op = "detect_circular_dependencies" THEN gq.start_file
                   ELSE gq.filepath
       IN /\ file \notin DOMAIN import_graph
          /\ file \notin DOMAIN reverse_graph
          /\ file \notin DOMAIN dependencies
    /\ DOMAIN import_graph # {}

\* C24 witness: an impact-radius query whose traversal reaches a file that
\* nothing imports (no key of the reverse map), and a summary of a graph
\* with an analysed file that nothing imports.
C24_WitnessImpact ==
    /\ gq.op = "get_impact_radius"
    /\ \E f \in DOMAIN gq.ret : f \notin DOMAIN reverse_graph
C24_WitnessSummary ==
    /\ gq.op = "summarize_graph"
    /\ \E f \in DOMAIN dependencies : f \notin DOMAIN reverse_graph

\* The nodes forward-reachable from file, file included.
RECURSIVE ReachableFrom(_, _)
ReachableFrom(seen, frontier) ==
    IF frontier \subseteq seen THEN seen
    ELSE ReachableFrom(seen \cup frontier,
                       UNION {Get(import_graph, f) : f \in frontier})

\* Some directed cycle (a self-import included) is reachable from file: a
\* reachable node reaches itself again by one or more import edges.
CycleReachable(file) ==
    \E n \in ReachableFrom({}, {file}) :
        n \in ReachableFrom({}, Get(import_graph, n))

\* C25: detect_circular_dependencies(start) returns a non-empty list if and
\* only if a directed cycle is reachable from start in the forward map.
C25_CyclesFoundIffReachable ==
    gq.op = "detect_circular_dependencies" =>
        (gq.ret # <<>> <=> CycleReachable(gq.start_file))

\* C25 witness: the only cycle does not pass through the start file, and
\* it is found.
C25_Witness ==
    /\ gq.op = "detect_circular_dependencies"
    /\ gq.ret # <<>>
    /\ \A c \in 1..Len(gq.ret) : gq.start_file \notin Range(gq.ret[c])

\* C25 witness: the start file imports files, no cycle is reachable, and
\* the list is empty.
C25_WitnessAcyclic ==
    /\ gq.op = "detect_circular_dependencies"
    /\ Cardinality(ReachableFrom({}, {gq.start_file})) = 3
    /\ gq.ret = <<>>

\* C26: the two maps mirror each other: m is in import_graph[f] exactly
\* when f is in reverse_graph[m]; and get_coupled_modules is symmetric:
\* when it returns b for a, b's own coupled modules hold a.
C26_MapsMirror ==
    /\ \A f \in DOMAIN import_graph :
          \A m \in import_graph[f] : f \in Get(reverse_graph, m)
    /\ \A m \in DOMAIN reverse_graph :
          \A f \in reverse_graph[m] : m \in Get(import_graph, f)
    /\ gq.op = "get_coupled_modules" =>
          \A b \in Range(gq.ret) :
             \A l \in CoupledModules(b) : gq.filepath \in Range(l)

\* C26 witness: a.py and b.js import each other, and the query for a.py
\* returns b.js.
C26_Witness ==
    /\ gq.op = "get_coupled_modules"
    /\ gq.filepath = "a.py"
    /\ gq.ret = <<"b.js">>
    /\ "a.py" \in Get(reverse_graph, "b.js")
    /\ "b.js" \in Get(reverse_graph, "a.py")

\* C27: with the findings the detector itself produces (detect_risks,
\* detect_breaking_changes), which are all MEDIUM or HIGH,
\* get_recommendation returns APPROVE exactly when there is no finding and
\* REQUEST_CHANGES exactly when at least three findings are HIGH, and the
\* overall score of a non-empty list is at least 0.6.
C27_ApproveIffNoFindings ==
    /\ \A k \in 1..Len(findings) : findings[k].level \in {"medium", "high"}
    /\ risk_ret.op = "get_recommendation" =>
          /\ risk_ret.ret = "APPROVE" <=> findings = <<>>
          /\ risk_ret.ret = "REQUEST_CHANGES" <=>
                Cardinality({k \in 1..Len(findings) :
                                findings[k].level = "high"}) >= 3
          /\ risk_ret.ret \in {"APPROVE", "COMMENT", "REQUEST_CHANGES"}
    /\ (risk_ret.op = "calculate_overall_risk_score" /\ findings # <<>>) =>
          risk_ret.ret >= 60

\* C27 witness: detect_risks left MEDIUM findings only, and the
\* recommendation is COMMENT.
C27_Witness ==
    /\ risk_ret.op = "get_recommendation"
    /\ findings # <<>>
    /\ \A k \in 1..Len(findings) : findings[k].level = "medium"
    /\ risk_ret.ret = "COMMENT"

\* C27 witness: detect_risks alone left three HIGH findings, and the
\* recommendation is REQUEST_CHANGES; and detect_risks followed by
\* detect_breaking_changes.
C27_WitnessRequestChanges ==
    /\ risk_ret.op = "get_recommendation"
    /\ CountType(findings, "breaking_change") = 0
    /\ risk_ret.ret = "REQUEST_CHANGES"
C27_WitnessBothCalls ==
    /\ risk_ret.op = "get_recommendation"
    /\ CountType(findings, "breaking_change") = 1
    /\ Len(findings) = 2
    /\ risk_ret.ret = "COMMENT"

(***************************************************************************)
(* Further claims about get_recommendation (checked under SpecRisk)        *)
(***************************************************************************)

\* The order APPROVE < COMMENT < REQUEST_CHANGES.
Severity(recommendation) ==
    CASE recommendation = "APPROVE" -> 0
      [] recommendation = "COMMENT" -> 1
      [] recommendation = "REQUEST_CHANGES" -> 2

\* C28: adding a finding never downgrades the recommendation: whenever a
\* finding of any level is appended to the findings, get_recommendation on
\* the longer list is at least as severe as on the list before.
C28_RecommendationMonotone ==
    [][(Len(findings') = Len(findings) + 1
          /\ SubSeq(findings', 1, Len(findings)) = findings)
       => Severity(Recommendation(findings'))
             >= Severity(Recommendation(findings))]_vars

(***************************************************************************)
(* Further claims about parse_diff (checked under SpecDiff)                *)
(***************************************************************************)

\* The position in the input of the k-th line that is one of the tokens.
NthLine(tokens, k) ==
    CHOOSE i \in 1..Len(lines) :
        /\ lines[i] \in tokens
        /\ Cardinality({j \in 1..(i - 1) : lines[j] \in tokens}) = k - 1

\* The <<file, position>> places of the hunk lists of the returned files.
HunkPlaces ==
    {p \in Range(file_diffs) \X (1..MaxLines + 1) :
        p[2] <= Len(fileHeap[p[1]].hunks)}

\* C29: parse_diff returns exactly one FileDiff per line that matches the
\* file header pattern, in input order, no FileDiff and no HunkChange
\* occurs twice in the output, and no hunk that follows a 'diff --git' line
\* failing the pattern belongs to the file before that line.
C29_OneFileDiffPerHeader ==
    dpc = "done" =>
        /\ Len(file_diffs) = Cardinality({i \in 1..Len(lines) : lines[i] = "FH"})
        /\ \A k \in 1..Len(file_diffs) : file_diffs[k] = k
        /\ \A p, q \in HunkPlaces :
              p # q => fileHeap[p[1]].hunks[p[2]] # fileHeap[q[1]].hunks[q[2]]
        /\ \A p \in HunkPlaces :
              LET header == NthLine({"FH"}, p[1])
                  hunk == NthLine({"HH", "HH1"}, fileHeap[p[1]].hunks[p[2]])
              IN \A i \in header..hunk : lines[i] # "BFH"

(***************************************************************************)
(* Claims about the traversals, statement by statement (checked under      *)
(* SpecWalk)                                                               *)
(***************************************************************************)

\* C30: get_impact_radius, detect_circular_dependencies and
\* get_dependency_depth terminate on every graph, cycles and self-imports
\* included: a query that has started returns; and no call marks a node
\* visited (runs the body of traverse or dfs on it) more than once.
C30_TraversalsTerminate ==
    /\ [](walk.op # "none" => \A n \in Nodes : walk.visits[n] <= 1)
    /\ (walk.op # "none") ~> (walk.op # "none" /\ walk.phase = "done")

\* C30 witness: each of the three queries has returned on a graph in which
\* a.py imports itself and lies on a cycle with b.js, having visited both.
C30_Witness ==
    /\ walk.op = "detect_circular_dependencies"
    /\ walk.phase = "done"
    /\ "a.py" \in Get(import_graph, "a.py")
    /\ "b.js" \in Get(import_graph, "a.py")
    /\ "a.py" \in Get(import_graph, "b.js")
    /\ walk.visits["a.py"] = 1 /\ walk.visits["b.js"] = 1
C30_WitnessImpact ==
    /\ walk.op = "get_impact_radius"
    /\ walk.phase = "done"
    /\ "a.py" \in Get(import_graph, "a.py")
    /\ "b.js" \in Get(import_graph, "a.py")
    /\ "a.py" \in Get(import_graph, "b.js")
    /\ walk.visits["a.py"] = 1 /\ walk.visits["b.js"] = 1
C30_WitnessDepth ==
    /\ walk.op = "get_dependency_depth"
    /\ walk.phase = "done"
    /\ "a.py" \in Get(import_graph, "a.py")
    /\ "b.js" \in Get(import_graph, "a.py")
    /\ "a.py" \in Get(import_graph, "b.js")
    /\ walk.visits["a.py"] = 1 /\ walk.visits["b.js"] = 1

\* The statement-by-statement traversals return what the recursive
\* definitions of the queries return.
WalkAgreesWithQueries ==
    (walk.op # "none" /\ walk.phase = "done") =>
        CASE walk.op = "get_impact_radius" ->
               walk.ret[1] \in ImpactRadius(walk.roots, walk.arg_max_depth)
          [] walk.op = "detect_circular_dependencies" ->
               walk.ret[1] \in CircularDependencies(walk.roots[1])
          [] walk.op = "get_dependency_depth" ->
               walk.ret[1] \in DependencyDepth(walk.roots[1])

====
